---- MODULE Spec2Model ----
(***************************************************************************)
(* Reactive query engine of the svelte_spacetime package: the filter       *)
(* expression layer (QueryFormatting.ts) and the subscription lifecycle    *)
(* and row cache of one or two STQuery instances (STQuery.svelte.ts)       *)
(* running against a SpacetimeDBContext (SpacetimeContext.svelte.ts).      *)
(*                                                                         *)
(* Text is modelled structurally: an identifier is a sequence of           *)
(* one-character strings, a query string is a sequence of tokens.  A row   *)
(* object lives in a heap (it is shared by reference between the table     *)
(* mirror of the connection and the caches of the query instances).        *)
(***************************************************************************)
EXTENDS Integers, Sequences, FiniteSets, TLC

(***************************************************************************)
(* Bounds of the exploration.                                              *)
(***************************************************************************)
MaxSubs == 2
MaxObjs == 2
MaxApplied == 1

Range(s) == {s[k] : k \in DOMAIN s}

(***************************************************************************)
(* Identifiers and the two naming conventions.                             *)
(***************************************************************************)
UpperChars == <<"A","B","C","D","E","F","G","H","I","J","K","L","M",
                "N","O","P","Q","R","S","T","U","V","W","X","Y","Z">>
LowerChars == <<"a","b","c","d","e","f","g","h","i","j","k","l","m",
                "n","o","p","q","r","s","t","u","v","w","x","y","z">>

IsUpper(c) == \E k \in DOMAIN UpperChars : UpperChars[k] = c
IsLower(c) == \E k \in DOMAIN LowerChars : LowerChars[k] = c
ToLower(c) == LowerChars[CHOOSE k \in DOMAIN UpperChars : UpperChars[k] = c]
ToUpper(c) == UpperChars[CHOOSE k \in DOMAIN LowerChars : LowerChars[k] = c]

RECURSIVE camelToSnake(_)
camelToSnake(str) ==
  IF str = <<>> THEN <<>>
  ELSE IF IsUpper(Head(str))
       THEN <<"_", ToLower(Head(str))>> \o camelToSnake(Tail(str))
       ELSE <<Head(str)>> \o camelToSnake(Tail(str))

RECURSIVE snakeToCamel(_)
snakeToCamel(str) ==
  IF str = <<>> THEN <<>>
  ELSE IF Len(str) >= 2 /\ Head(str) = "_" /\ IsLower(str[2])
       THEN <<ToUpper(str[2])>> \o snakeToCamel(Tail(Tail(str)))
       ELSE <<Head(str)>> \o snakeToCamel(Tail(str))

camelToSnakeCase(str) == camelToSnake(str)
snakeToCamelCase(str) == snakeToCamel(str)

(***************************************************************************)
(* Values.  A value is a tagged integer: t is the JavaScript type and v    *)
(* the content; a string is numbered, and the string numbered HexBase + k  *)
(* is the text "0x" followed by the hexadecimal form of identity k.        *)
(***************************************************************************)
HexBase == 100
Num(n) == [t |-> "num", v |-> n]
Str(n) == [t |-> "str", v |-> n]
Ident(k) == [t |-> "id", v |-> k]
UndefinedValue == [t |-> "undef", v |-> 0]
NoIdentity == 0
Identities == {1, 2}

identityToQueryCompliantHexString(identity) == Str(HexBase + identity.v)

(***************************************************************************)
(* Expressions.                                                            *)
(***************************************************************************)
Unresolved == [type |-> "undefined"]
NoExpr == [type |-> "none"]

EqNode(key, value) == [type |-> "eq", key |-> key, value |-> value]
PendingEq(key) == [type |-> "pending", key |-> key, of |-> "eq"]

eq(key, value) ==
  IF value.t = "undef" THEN PendingEq(key) ELSE EqNode(key, value)

not(child) ==
  IF child.type = "pending"
  THEN [type |-> "pending", key |-> child.key, of |-> "not", child |-> child]
  ELSE [type |-> "not", child |-> child]

\* as FlattenChildren, the children kept as they are
FlattenChildren_Kept(kind, children) == children

RECURSIVE FlattenChildren(_, _)
FlattenChildren(kind, children) ==
  IF children = <<>> THEN <<>>
  ELSE LET c == Head(children)
       IN (IF c.type = kind THEN c.children ELSE <<c>>)
            \o FlattenChildren(kind, Tail(children))

\* the tail of and / or: the node built from the flattened children
Pruned(kind, pruned) ==
  IF Len(pruned) = 0 THEN [type |-> kind, children |-> <<>>]
  ELSE IF Len(pruned) = 1 THEN pruned[1]
  ELSE [type |-> kind, children |-> pruned]

and(children) == Pruned("and", FlattenChildren("and", children))

or(children) == Pruned("or", FlattenChildren("or", children))

RECURSIVE resolvePendingExpression(_, _)
RECURSIVE ResolveChildren(_, _)
ResolveChildren(children, clientIdentity) ==
  IF children = <<>> THEN <<>>
  ELSE <<resolvePendingExpression(Head(children), clientIdentity)>>
         \o ResolveChildren(Tail(children), clientIdentity)

\* as NotOf, the resolved child handed on without the negation
NotOf_Dropped(resolvedChild) ==
  IF resolvedChild.type = "undefined" THEN Unresolved
  ELSE resolvedChild

\* the not node over a resolved child, or undefined when it did not resolve
NotOf(resolvedChild) ==
  IF resolvedChild.type = "undefined" THEN Unresolved
  ELSE [type |-> "not", child |-> resolvedChild]

\* as PendingResolve, with an eq placeholder that never takes the identity
PendingResolve_NeverResolves(expr, clientIdentity) ==
  IF expr.of = "eq"
  THEN Unresolved
  ELSE NotOf(resolvePendingExpression(expr.child, clientIdentity))

\* expr.resolve(context) of a pending node made by eq or by not
PendingResolve(expr, clientIdentity) ==
  IF expr.of = "eq"
  THEN IF clientIdentity = NoIdentity THEN Unresolved
       ELSE EqNode(expr.key, Ident(clientIdentity))
  ELSE NotOf(resolvePendingExpression(expr.child, clientIdentity))

\* as Combined, the children that did not resolve left out
Combined_Skipping(kind, resolvedChildren) ==
  Pruned(kind, FlattenChildren(kind,
           SelectSeq(resolvedChildren, LAMBDA x : x.type # "undefined")))

\* the and / or of the resolved children, undefined when one did not resolve
Combined(kind, resolvedChildren) ==
  IF \E k \in DOMAIN resolvedChildren : resolvedChildren[k].type = "undefined"
  THEN Unresolved
  ELSE Pruned(kind, FlattenChildren(kind, resolvedChildren))

resolvePendingExpression(expr, clientIdentity) ==
  CASE expr.type = "pending" -> PendingResolve(expr, clientIdentity)
    [] expr.type = "not" -> NotOf(resolvePendingExpression(expr.child, clientIdentity))
    [] expr.type = "and" -> Combined("and", ResolveChildren(expr.children, clientIdentity))
    [] expr.type = "or" -> Combined("or", ResolveChildren(expr.children, clientIdentity))
    [] OTHER -> expr

(***************************************************************************)
(* Rows are functions from column names (camelCase) to values.             *)
(***************************************************************************)
HasUnderscore(key) == \E k \in DOMAIN key : key[k] = "_"

getRowValue(row, key) ==
  IF key \in DOMAIN row THEN row[key]
  ELSE IF HasUnderscore(key) /\ snakeToCamelCase(key) \in DOMAIN row
       THEN row[snakeToCamelCase(key)]
       ELSE UndefinedValue

EqValues(rowValue, exprValue) ==
  CASE rowValue.t = "id" /\ exprValue.t = "id" -> rowValue.v = exprValue.v
    [] rowValue.t = "id" /\ exprValue.t # "id" ->
         identityToQueryCompliantHexString(rowValue) = exprValue
    [] rowValue.t # "id" /\ exprValue.t = "id" ->
         rowValue = identityToQueryCompliantHexString(exprValue)
    [] OTHER -> rowValue = exprValue

RECURSIVE evaluate(_, _, _)
\* the switch of evaluate over the resolved expression
EvaluateConcrete(concreteExpr, row, clientIdentity) ==
  CASE concreteExpr.type = "undefined" -> FALSE
    [] concreteExpr.type = "eq" ->
         EqValues(getRowValue(row, concreteExpr.key), concreteExpr.value)
    [] concreteExpr.type = "not" ->
         ~ evaluate(concreteExpr.child, row, clientIdentity)
    [] concreteExpr.type = "and" ->
         \A k \in DOMAIN concreteExpr.children :
            evaluate(concreteExpr.children[k], row, clientIdentity)
    [] concreteExpr.type = "or" ->
         \E k \in DOMAIN concreteExpr.children :
            evaluate(concreteExpr.children[k], row, clientIdentity)
    [] OTHER -> FALSE

evaluate(expr, row, clientIdentity) ==
  EvaluateConcrete(resolvePendingExpression(expr, clientIdentity), row, clientIdentity)

(***************************************************************************)
(* Compilation to query text (a sequence of tokens).                       *)
(***************************************************************************)
IsBareIdent(id) ==
  /\ id # <<>>
  /\ \A k \in DOMAIN id :
        \/ IsUpper(id[k]) \/ IsLower(id[k]) \/ id[k] = "_"
        \/ (k > 1 /\ id[k] \in {"0","1","2","3","4","5","6","7","8","9"})

RECURSIVE JoinChars(_)
JoinChars(id) == IF id = <<>> THEN "" ELSE Head(id) \o JoinChars(Tail(id))

escapeIdent(id) ==
  LET snakeCaseId == camelToSnakeCase(id)
  IN IF IsBareIdent(snakeCaseId) THEN JoinChars(snakeCaseId)
     ELSE "\"" \o JoinChars(snakeCaseId) \o "\""

formatValue(v) ==
  CASE v.t = "id" -> "'0x" \o ToString(v.v) \o "'"
    [] v.t = "str" ->
         IF v.v >= HexBase THEN "'0x" \o ToString(v.v - HexBase) \o "'"
         ELSE "'s" \o ToString(v.v) \o "'"
    [] v.t = "num" -> ToString(v.v)
    [] v.t = "bool" -> IF v.v = 1 THEN "TRUE" ELSE "FALSE"

parenthesize(s) ==
  IF ~ (\E k \in DOMAIN s : s[k] = " AND ") /\ ~ (\E k \in DOMAIN s : s[k] = " OR ")
  THEN s
  ELSE <<"(">> \o s \o <<")">>

RECURSIVE Join(_, _)
Join(parts, sep) ==
  IF parts = <<>> THEN <<>>
  ELSE IF Len(parts) = 1 THEN parts[1]
  ELSE parts[1] \o <<sep>> \o Join(Tail(parts), sep)

RECURSIVE toQueryString(_, _)
RECURSIVE CompileChildren(_, _, _)
CompileChildren(children, negate, clientIdentity) ==
  IF children = <<>> THEN <<>>
  ELSE <<toQueryString(IF negate THEN [type |-> "not", child |-> Head(children)]
                       ELSE Head(children), clientIdentity)>>
         \o CompileChildren(Tail(children), negate, clientIdentity)

\* as CompileNot, the negation written out in front of the compiled child
CompileNot_Literal(child, clientIdentity) ==
  <<"NOT (">> \o toQueryString(child, clientIdentity) \o <<")">>

\* NOT pushed down to the leaves of the child
CompileNot(child, clientIdentity) ==
  CASE child.type = "eq" ->
         <<escapeIdent(child.key), " != ", formatValue(child.value)>>
    [] child.type = "and" ->
         parenthesize(Join(CompileChildren(child.children, TRUE, clientIdentity), " OR "))
    [] child.type = "or" ->
         parenthesize(Join(CompileChildren(child.children, TRUE, clientIdentity), " AND "))
    [] child.type = "not" -> toQueryString(child.child, clientIdentity)
    [] OTHER -> <<"NOT (">> \o toQueryString(child, clientIdentity) \o <<")">>

\* the switch of toQueryString over the resolved expression
CompileConcrete(concreteExpr, clientIdentity) ==
  CASE concreteExpr.type = "undefined" -> <<"throw">>
    [] concreteExpr.type = "eq" ->
         <<escapeIdent(concreteExpr.key), " = ", formatValue(concreteExpr.value)>>
    [] concreteExpr.type = "not" -> CompileNot(concreteExpr.child, clientIdentity)
    [] concreteExpr.type = "and" ->
         parenthesize(Join(CompileChildren(concreteExpr.children, FALSE, clientIdentity), " AND "))
    [] concreteExpr.type = "or" ->
         parenthesize(Join(CompileChildren(concreteExpr.children, FALSE, clientIdentity), " OR "))
    [] OTHER -> <<"throw">>

\* as toQueryString, an expression that did not resolve compiled as it is
toQueryString_Unchecked(expr, clientIdentity) ==
  CompileConcrete(IF resolvePendingExpression(expr, clientIdentity) = Unresolved
                  THEN expr
                  ELSE resolvePendingExpression(expr, clientIdentity),
                  clientIdentity)

\* The caller never compiles an unresolved expression; <<"throw">> stands
\* for the thrown Error.
toQueryString(expr, clientIdentity) ==
  CompileConcrete(resolvePendingExpression(expr, clientIdentity), clientIdentity)

(***************************************************************************)
(* The table of the model: primary key column "id", columns "gId" and      *)
(* "own" (an identity).  Row objects live in a heap: heap[o] is the object *)
(* with reference o, its fields and its __stQueryTag property.             *)
(***************************************************************************)
colId == <<"i","d">>
colGId == <<"g","I","d">>
colOwn == <<"o","w","n">>
tableName == <<"m","s","g">>

Keys == {1, 2}
GIds == {7, 8}
MkRow(k, g, o) == (colId :> Num(k)) @@ (colGId :> Num(g)) @@ (colOwn :> Ident(o))
\* the rows of the model: gId is 7 exactly for the rows owned by identity 1
RowVals == {r \in {MkRow(k, g, o) : k \in Keys, g \in GIds, o \in Identities} :
              (r[colGId].v = 7) <=> (r[colOwn].v = 1)}

Undefined == <<>>
MkObj(row) == [row |-> row, hasTag |-> FALSE, tag |-> Undefined]

\* The filters an instance is constructed with.
Filters == {NoExpr, eq(colGId, Num(7)), eq(colOwn, UndefinedValue)}

\* where clauses that wait for the identity of the client
PendingFilters ==
  {eq(colOwn, UndefinedValue),
   not(eq(colOwn, UndefinedValue)),
   and(<<eq(colGId, Num(7)), eq(colOwn, UndefinedValue)>>)}

\* where clauses built by spreading a list of zero, one or two comparisons
\* over and() / or()
SpreadFilters ==
  {or(<<>>), and(<<>>), or(<<eq(colGId, Num(7))>>),
   or(<<eq(colGId, Num(7)), eq(colGId, Num(8))>>)}

WhereClauses == Filters \cup PendingFilters \cup SpreadFilters
ClientIdentities == {NoIdentity} \cup Identities

\* resolvePendingExpression and evaluate, tabulated over the where clauses,
\* identities and rows of the model.
ResolveTable ==
  [f \in WhereClauses |->
     [id \in ClientIdentities |-> resolvePendingExpression(f, id)]]

EvaluateTable ==
  [f \in WhereClauses |->
     [id \in ClientIdentities |-> [row \in RowVals |-> evaluate(f, row, id)]]]

Inst == {1, 2}
Placeholder == 0
RealConns == {1, 2}

VARIABLES
  ctx,         \* SpacetimeDBContext: connection object, #isActive, #identity
  inst,        \* the fields of each STQuery instance
  dirty,       \* dirty[i]: the $effect of instance i is scheduled to re-run
  live,        \* the instances that were constructed
  handles,     \* the subscription handles the connections have issued
  registered,  \* registered[c]: the listeners on the table of connection c
  mirror,      \* mirror[c]: the row objects of the table cache of connection c
  heap,        \* the row objects
  pkField,     \* tableTypeInfo.primaryKey of the table (<<>> when absent)
  calls,       \* the collaborator calls and callbacks made by the last step
  lastOp,      \* the last step taken (again: it repeats the step before)
  solo,        \* solo[i]: cache, heap and callbacks of instance i in the run
               \* where it is the only instance (kept when there are two)
  trial        \* the arguments and the result of the last call of a function
               \* of the expression layer made outside an instance

vars == <<ctx, inst, dirty, live, handles, registered, mirror, heap, pkField,
          calls, lastOp, solo, trial>>

NoTrial == [fn |-> "none"]

Call(op, i, a, b) == [op |-> op, inst |-> i, a |-> a, b |-> b]

\* rowsSubscribers and eventsSubscribers: the effects registered with the
\* subscriber made by createSubscriber for .rows and for .events
NewQuery(whereClause) ==
  [rows |-> <<>>, state |-> "loading", whereClause |-> whereClause,
   lastSubscribedQuery |-> Undefined, subscription |-> 0,
   eventListeners |-> <<>>, hasSetupEventListeners |-> FALSE,
   rowsSubscribers |-> 0, eventsSubscribers |-> 0]

(***************************************************************************)
(* STQuery: the body of the $effect of the constructor.                    *)
(***************************************************************************)
UnsubscribeCalls(q, i) ==
  IF q.subscription # 0 THEN <<Call("unsubscribe", i, q.subscription, 0)>> ELSE <<>>

RemoveListenerCalls(q, i) ==
  [k \in DOMAIN q.eventListeners |-> Call("removeListeners", i, q.eventListeners[k], 0)]

\* as EffectTeardown, keeping the handle and the query string it was
\* requested with
EffectTeardown_KeepsQuery(q, i) ==
  [q |-> [q EXCEPT !.state = "loading", !.eventListeners = <<>>],
   calls |-> RemoveListenerCalls(q, i)]

\* The !isActive branch and the branch of an unresolvable where clause.
EffectTeardown(q, i) ==
  [q |-> [q EXCEPT !.subscription = 0, !.lastSubscribedQuery = Undefined,
                   !.state = "loading", !.eventListeners = <<>>],
   calls |-> UnsubscribeCalls(q, i) \o RemoveListenerCalls(q, i)]

\* The query string of the effect (lines 203-204), as a function of the where
\* clause and of the identity of the context.
BuildQueryFor(whereClause, identity) ==
  <<"SELECT * FROM ", JoinChars(camelToSnake(tableName))>>
    \o (IF whereClause.type # "none"
        THEN <<" WHERE ">> \o toQueryString(resolvePendingExpression(whereClause, identity), identity)
        ELSE <<>>)

\* BuildQueryFor tabulated over the where clauses and identities of the model.
QueryTable ==
  [f \in WhereClauses |-> [id \in ClientIdentities |-> BuildQueryFor(f, id)]]

BuildQuery(q, c) == QueryTable[q.whereClause][c.identity]

\* setupTableEventListeners: the placeholder connection has no table.
setupTableEventListeners(q, c, i) ==
  LET removed == RemoveListenerCalls(q, i)
  IN IF c.connection = Placeholder
     THEN [q |-> [q EXCEPT !.eventListeners = <<>>], calls |-> removed]
     ELSE [q |-> [q EXCEPT !.eventListeners = <<c.connection>>],
           calls |-> removed \o <<Call("addListeners", i, c.connection, 0)>>]

\* as EffectSubscribe, without releasing the subscription held
EffectSubscribe_KeepsOld(q, c, i, h, query) ==
  LET q1 == [q EXCEPT !.subscription = 0, !.eventListeners = <<>>,
                      !.hasSetupEventListeners = FALSE, !.rows = <<>>]
      s == setupTableEventListeners(q1, c, i)
      q2 == [s.q EXCEPT !.hasSetupEventListeners = TRUE,
                        !.subscription = h, !.lastSubscribedQuery = query]
  IN [q |-> q2,
      calls |-> RemoveListenerCalls(q, i) \o s.calls \o <<Call("subscribe", i, h, query)>>]

\* as EffectSubscribe, asking for the new subscription before the old handle
\* is released
EffectSubscribe_SubscribesFirst(q, c, i, h, query) ==
  LET q1 == [q EXCEPT !.subscription = 0, !.eventListeners = <<>>,
                      !.hasSetupEventListeners = FALSE, !.rows = <<>>]
      s == setupTableEventListeners(q1, c, i)
      q2 == [s.q EXCEPT !.hasSetupEventListeners = TRUE,
                        !.subscription = h, !.lastSubscribedQuery = query]
  IN [q |-> q2,
      calls |-> RemoveListenerCalls(q, i) \o s.calls
                  \o <<Call("subscribe", i, h, query)>> \o UnsubscribeCalls(q, i)]

\* as EffectSubscribe, emptying eventListeners without calling the removal
\* functions it holds
EffectSubscribe_KeepsListeners(q, c, i, h, query) ==
  LET q1 == [q EXCEPT !.subscription = 0, !.eventListeners = <<>>,
                      !.hasSetupEventListeners = FALSE, !.rows = <<>>]
      s == setupTableEventListeners(q1, c, i)
      q2 == [s.q EXCEPT !.hasSetupEventListeners = TRUE,
                        !.subscription = h, !.lastSubscribedQuery = query]
  IN [q |-> q2,
      calls |-> UnsubscribeCalls(q, i) \o s.calls \o <<Call("subscribe", i, h, query)>>]

EffectSubscribe(q, c, i, h, query) ==
  LET q1 == [q EXCEPT !.subscription = 0, !.eventListeners = <<>>,
                      !.hasSetupEventListeners = FALSE, !.rows = <<>>]
      s == setupTableEventListeners(q1, c, i)
      q2 == [s.q EXCEPT !.hasSetupEventListeners = TRUE,
                        !.subscription = h, !.lastSubscribedQuery = query]
  IN [q |-> q2,
      calls |-> UnsubscribeCalls(q, i) \o RemoveListenerCalls(q, i) \o s.calls
                  \o <<Call("subscribe", i, h, query)>>]

\* as Effect, without the test for an unchanged query string
Effect_AlwaysResubscribes(q, c, i, h) ==
  IF ~ c.isActive THEN EffectTeardown(q, i)
  ELSE IF q.whereClause.type # "none"
          /\ ResolveTable[q.whereClause][c.identity].type = "undefined"
       THEN EffectTeardown(q, i)
       ELSE EffectSubscribe(q, c, i, h, BuildQuery(q, c))

Effect(q, c, i, h) ==
  IF ~ c.isActive THEN EffectTeardown(q, i)
  ELSE IF q.whereClause.type # "none"
          /\ ResolveTable[q.whereClause][c.identity].type = "undefined"
       THEN EffectTeardown(q, i)
       ELSE LET query == BuildQuery(q, c)
            IN IF q.subscription # 0 /\ q.lastSubscribedQuery = query
               THEN [q |-> q, calls |-> <<>>]
               ELSE EffectSubscribe(q, c, i, h, query)

(***************************************************************************)
(* STQuery.cleanup / destroy.                                              *)
(***************************************************************************)
\* as cleanup, forgetting to drop the handle it unsubscribed
cleanup_KeepsHandle(q, i) ==
  [q |-> [q EXCEPT !.eventListeners = <<>>,
                   !.hasSetupEventListeners = FALSE,
                   !.state = "loading", !.rows = <<>>],
   calls |-> UnsubscribeCalls(q, i) \o RemoveListenerCalls(q, i)]

cleanup(q, i) ==
  [q |-> [q EXCEPT !.subscription = 0, !.eventListeners = <<>>,
                   !.hasSetupEventListeners = FALSE,
                   !.state = "loading", !.rows = <<>>],
   calls |-> UnsubscribeCalls(q, i) \o RemoveListenerCalls(q, i)]

(***************************************************************************)
(* The effect of collaborator calls on the connection side.                *)
(***************************************************************************)
RECURSIVE RemoveFirst(_, _)
RemoveFirst(s, x) ==
  IF s = <<>> THEN <<>>
  ELSE IF Head(s) = x THEN Tail(s) ELSE <<Head(s)>> \o RemoveFirst(Tail(s), x)

RECURSIVE ApplyCalls(_, _, _, _)
ApplyCalls(cs, hs, reg, c) ==
  IF cs = <<>> THEN [handles |-> hs, registered |-> reg]
  ELSE LET x == Head(cs)
       IN CASE x.op = "unsubscribe" ->
                 ApplyCalls(Tail(cs), [hs EXCEPT ![x.a].unsub = TRUE], reg, c)
            [] x.op = "subscribe" ->
                 ApplyCalls(Tail(cs),
                            Append(hs, [owner |-> x.inst, conn |-> c.connection,
                                        unsub |-> FALSE, closed |-> FALSE, applied |-> 0]),
                            reg, c)
            [] x.op = "removeListeners" ->
                 ApplyCalls(Tail(cs), hs,
                            [reg EXCEPT ![x.a] = RemoveFirst(reg[x.a], x.inst)], c)
            [] x.op = "addListeners" ->
                 ApplyCalls(Tail(cs), hs,
                            [reg EXCEPT ![x.a] = Append(reg[x.a], x.inst)], c)
            [] OTHER -> ApplyCalls(Tail(cs), hs, reg, c)

(***************************************************************************)
(* Row cache: findRowIndex, removeAtIndex, initializeFromCache.  Indexes   *)
(* are those of the code (the first element has index 0, -1 is "absent").  *)
(***************************************************************************)
PkEqual(rPkValue, targetPkValue) ==
  IF rPkValue.t = "id"
  THEN targetPkValue.t = "id" /\ rPkValue.v = targetPkValue.v
  ELSE rPkValue = targetPkValue

\* Array.findIndex: the first index (from 0) of a hit, -1 without one
FirstIndex(hits) ==
  IF hits = {} THEN -1
  ELSE (CHOOSE k \in hits : \A m \in hits : k <= m) - 1

PkIndex(rows, hp, targetRow, pk) ==
  FirstIndex({k \in DOMAIN rows :
                /\ pk \in DOMAIN hp[rows[k]].row
                /\ PkEqual(hp[rows[k]].row[pk], hp[targetRow].row[pk])})

TagIndex(q, hp, targetRow) ==
  IF /\ hp[targetRow].hasTag
     /\ hp[targetRow].tag # Undefined
     /\ hp[targetRow].tag = q.lastSubscribedQuery
  THEN 0 ELSE -1

\* the index of the primary key search when it found the row, else the tag test
FoundOrTagged(index, q, hp, targetRow) ==
  IF index # -1 THEN index ELSE TagIndex(q, hp, targetRow)

findRowIndex(q, hp, targetRow, pk) ==
  IF pk # <<>> /\ pk \in DOMAIN hp[targetRow].row
  THEN FoundOrTagged(PkIndex(q.rows, hp, targetRow, pk), q, hp, targetRow)
  ELSE TagIndex(q, hp, targetRow)

removeAtIndex(rows, index) ==
  SubSeq(rows, 1, index) \o SubSeq(rows, index + 2, Len(rows))

RECURSIVE SortedSeq(_)
SortedSeq(S) ==
  IF S = {} THEN <<>>
  ELSE LET m == CHOOSE x \in S : \A y \in S : x <= y
       IN <<m>> \o SortedSeq(S \ {m})

Passes(q, row, clientIdentity) ==
  q.whereClause.type = "none" \/ EvaluateTable[q.whereClause][clientIdentity][row]

\* the cache set to the filtered rows, each tagged with the query
Seeded(q, hp, filteredRows) ==
  [q |-> [q EXCEPT !.rows = filteredRows],
   hp |-> [o \in DOMAIN hp |->
             IF o \in Range(filteredRows)
             THEN [hp[o] EXCEPT !.hasTag = TRUE, !.tag = q.lastSubscribedQuery]
             ELSE hp[o]]]

\* as initializeFromCache, keeping every row of the table cache
initializeFromCache_Unfiltered(q, hp, cachedRows, clientIdentity) ==
  Seeded(q, hp, cachedRows)

\* table.tableCache.iter() yields the row objects in insertion order.
initializeFromCache(q, hp, cachedRows, clientIdentity) ==
  Seeded(q, hp, SelectSeq(cachedRows, LAMBDA o : Passes(q, hp[o].row, clientIdentity)))

\* The onApplied callback of the subscription builder.
onApplied(q, hp, c, mir) ==
  LET q1 == [q EXCEPT !.state = "ready", !.rows = <<>>]
  IN IF c.connection = Placeholder
     THEN [q |-> q1, hp |-> hp]
     ELSE initializeFromCache(q1, hp, SortedSeq(mir[c.connection]), c.identity)

(***************************************************************************)
(* The row-change listeners of setupTableEventListeners.  Each returns the *)
(* instance, the heap and the callbacks invoked.                           *)
(***************************************************************************)
\* as MembershipChange, with enter and leave exchanged
MembershipChange_Swapped(oldIn, newIn) ==
  CASE oldIn /\ ~ newIn -> "enter"
    [] ~ oldIn /\ newIn -> "leave"
    [] oldIn /\ newIn -> "stayIn"
    [] OTHER -> "stayOut"

MembershipChange(oldIn, newIn) ==
  CASE oldIn /\ ~ newIn -> "leave"
    [] ~ oldIn /\ newIn -> "enter"
    [] oldIn /\ newIn -> "stayIn"
    [] OTHER -> "stayOut"

\* evaluate resolves its argument first: the resolved clause and the clause
\* itself evaluate alike.
classifyMembership(where, oldRow, newRow, clientIdentity) ==
  IF where.type = "none" THEN "stayIn"
  ELSE IF where.type = "pending"
          /\ ResolveTable[where][clientIdentity].type = "undefined"
       THEN "stayOut"
       ELSE MembershipChange(EvaluateTable[where][clientIdentity][oldRow],
                             EvaluateTable[where][clientIdentity][newRow])

Same(q, hp) == [q |-> q, hp |-> hp, calls |-> <<>>]

onInsert(q, hp, clientIdentity, pk, i, row) ==
  IF ~ Passes(q, hp[row].row, clientIdentity) THEN Same(q, hp)
  ELSE IF findRowIndex(q, hp, row, pk) # -1 THEN Same(q, hp)
  ELSE [q |-> [q EXCEPT !.rows = Append(q.rows, row)],
        hp |-> [hp EXCEPT ![row].hasTag = TRUE, ![row].tag = q.lastSubscribedQuery],
        calls |-> <<Call("onInsert", i, row, 0)>>]

\* the cache without the row at index, as it is when index is -1
Removed(q, index) ==
  IF index # -1 THEN [q EXCEPT !.rows = removeAtIndex(q.rows, index)] ELSE q

onDelete(q, hp, clientIdentity, pk, i, row) ==
  IF ~ Passes(q, hp[row].row, clientIdentity) THEN Same(q, hp)
  ELSE [q |-> Removed(q, findRowIndex(q, hp, row, pk)),
        hp |-> hp,
        calls |-> <<Call("onDelete", i, row, 0)>>]

\* as ObjectAssign, copying nothing
ObjectAssign_Nothing(hp, existingRow, newRow) == hp

\* Object.assign(existingRow, newRow): every own property of newRow,
\* __stQueryTag included when newRow carries it.
ObjectAssign(hp, existingRow, newRow) ==
  [hp EXCEPT ![existingRow] =
     [row |-> hp[newRow].row,
      hasTag |-> hp[existingRow].hasTag \/ hp[newRow].hasTag,
      tag |-> IF hp[newRow].hasTag THEN hp[newRow].tag ELSE hp[existingRow].tag]]

\* the stayIn branch of onUpdate, index the outcome of findRowIndex(oldRow)
StayIn(q, hp, i, oldRow, newRow, index) ==
  IF index = -1
  THEN [q |-> q, hp |-> hp, calls |-> <<Call("onUpdate", i, oldRow, newRow)>>]
  ELSE IF index + 1 \in DOMAIN q.rows
  THEN [q |-> q, hp |-> ObjectAssign(hp, q.rows[index + 1], newRow),
        calls |-> <<Call("onUpdate", i, oldRow, newRow)>>]
  ELSE \* Object.assign(undefined, newRow) throws a TypeError
       [q |-> q, hp |-> hp,
        calls |-> <<Call("onUpdate", i, oldRow, newRow), Call("throw", i, 0, 0)>>]

\* the branches of onUpdate over the membership change
Changed(q, hp, pk, i, oldRow, newRow, change) ==
  CASE change = "enter" ->
         [q |-> [q EXCEPT !.rows = Append(q.rows, newRow)], hp |-> hp,
          calls |-> <<Call("onInsert", i, newRow, 0)>>]
    [] change = "leave" ->
         [q |-> Removed(q, findRowIndex(q, hp, oldRow, pk)),
          hp |-> hp,
          calls |-> <<Call("onDelete", i, oldRow, 0)>>]
    [] change = "stayIn" ->
         StayIn(q, hp, i, oldRow, newRow, findRowIndex(q, hp, oldRow, pk))
    [] OTHER -> Same(q, hp)

onUpdate(q, hp, clientIdentity, pk, i, oldRow, newRow) ==
  Changed(q, hp, pk, i, oldRow, newRow,
          classifyMembership(q.whereClause, hp[oldRow].row, hp[newRow].row, clientIdentity))

\* One notification is handed to every listener registered on the table,
\* in registration order, within one event-loop task.
Listener(kind, q, hp, clientIdentity, pk, i, a, b) ==
  CASE kind = "insert" -> onInsert(q, hp, clientIdentity, pk, i, a)
    [] kind = "delete" -> onDelete(q, hp, clientIdentity, pk, i, a)
    [] OTHER -> onUpdate(q, hp, clientIdentity, pk, i, a, b)

\* the outcome acc of the listeners before, followed by the outcome r of the
\* listener of instance i
Then(acc, i, r) ==
  [inst |-> [acc.inst EXCEPT ![i] = r.q], hp |-> r.hp, calls |-> acc.calls \o r.calls]

RECURSIVE Dispatch(_, _, _, _, _, _, _)
Dispatch(kind, listeners, acc, clientIdentity, pk, a, b) ==
  IF listeners = <<>> THEN acc
  ELSE Dispatch(kind, Tail(listeners),
                Then(acc, Head(listeners),
                     Listener(kind, acc.inst[Head(listeners)], acc.hp,
                              clientIdentity, pk, Head(listeners), a, b)),
                clientIdentity, pk, a, b)

(***************************************************************************)
(* The run of instance i alone: the same triggers, acknowledgments and    *)
(* notifications, applied to a private copy of the row objects.            *)
(***************************************************************************)
Tracked == Cardinality(live) > 1

SoloQ(i) == [inst[i] EXCEPT !.rows = solo[i].rows]

Callbacks(cs, i) ==
  SelectSeq(cs, LAMBDA x : x.inst = i /\ x.op \in {"onInsert", "onDelete", "onUpdate", "throw"})

SoloIdle == [i \in Inst |-> [solo[i] EXCEPT !.calls = <<>>]]

\* instance i took a lifecycle step that left it with the cache newRows
SoloLifecycle(i, cleared) ==
  IF ~ Tracked THEN solo
  ELSE [SoloIdle EXCEPT ![i].rows = IF cleared THEN <<>> ELSE solo[i].rows]

SoloOutcome(r, cs) == [rows |-> r.q.rows, hp |-> r.hp, calls |-> cs]

SoloApplied(i) ==
  IF ~ Tracked THEN solo
  ELSE [SoloIdle EXCEPT ![i] = SoloOutcome(onApplied(SoloQ(i), solo[i].hp, ctx, mirror), <<>>)]

\* a notification on connection c, with the row objects fresh allocated
SoloHeard(r) == SoloOutcome(r, r.calls)

SoloNotify(kind, c, fresh, a, b) ==
  IF ~ Tracked THEN solo
  ELSE [i \in Inst |->
          IF i \in Range(registered[c])
          THEN SoloHeard(Listener(kind, SoloQ(i), solo[i].hp \o fresh,
                                  ctx.identity, pkField, i, a, b))
          ELSE [rows |-> solo[i].rows, hp |-> solo[i].hp \o fresh, calls |-> <<>>]]

(***************************************************************************)
(* Initial states: the instances were just constructed and their $effect   *)
(* is about to run.                                                        *)
(***************************************************************************)
InitCommon ==
  /\ handles = <<>>
  /\ registered = [c \in RealConns |-> <<>>]
  /\ pkField = colId
  /\ calls = <<>>
  /\ lastOp = [name |-> "new", arg |-> 0, again |-> FALSE]
  /\ trial = NoTrial

\* The context still holds its placeholder connection; the table caches of
\* the connections the provider will hand over already hold rows.
InitHeap == <<MkObj(MkRow(1, 7, 1)), MkObj(MkRow(2, 8, 2)), MkObj(MkRow(1, 8, 2))>>

Init ==
  /\ InitCommon
  /\ ctx = [connection |-> Placeholder, isActive |-> FALSE, identity |-> NoIdentity]
  /\ heap = InitHeap
  /\ mirror = (1 :> {1, 2}) @@ (2 :> {3})
  /\ live = {1}
  /\ \E f \in Filters : inst = [i \in Inst |-> NewQuery(IF i = 1 THEN f ELSE NoExpr)]
  /\ dirty = [i \in Inst |-> i \in live]
  /\ solo = [i \in Inst |-> [rows |-> <<>>, hp |-> heap, calls |-> <<>>]]

(***************************************************************************)
(* Context changes.  Each schedules the $effect of every instance; the     *)
(* effects run before the next event-loop task.                            *)
(***************************************************************************)
Flushed == \A i \in Inst : ~ dirty[i]

CloseHandles(hs, c) ==
  [h \in DOMAIN hs |-> IF hs[h].conn = c THEN [hs[h] EXCEPT !.closed = TRUE] ELSE hs[h]]

\* SpacetimeDBContext.initializeConnection with another connection object
\* (the provider moves to the connection of the next module).
InitializeConnection(c, a, id) ==
  /\ c > ctx.connection
  /\ ctx' = [connection |-> c, isActive |-> a, identity |-> id]
  /\ handles' = IF a THEN handles ELSE CloseHandles(handles, c)
  /\ dirty' = [i \in Inst |-> i \in live]
  /\ calls' = <<>>
  /\ lastOp' = [name |-> "context", arg |-> 0, again |-> FALSE]
  /\ solo' = IF Tracked THEN SoloIdle ELSE solo
  /\ UNCHANGED <<inst, live, registered, mirror, heap, pkField, trial>>

\* connection.isActive = b (onConnect / onDisconnect).
SetActive(b) ==
  /\ ctx.connection # Placeholder
  /\ b # ctx.isActive
  /\ ctx' = [ctx EXCEPT !.isActive = b]
  /\ handles' = IF b THEN handles ELSE CloseHandles(handles, ctx.connection)
  /\ dirty' = [i \in Inst |-> i \in live]
  /\ calls' = <<>>
  /\ lastOp' = [name |-> "context", arg |-> 0, again |-> FALSE]
  /\ solo' = IF Tracked THEN SoloIdle ELSE solo
  /\ UNCHANGED <<inst, live, registered, mirror, heap, pkField, trial>>

\* connection.identity = v; an Identity object of equal content is a change.
SetIdentity(v) ==
  /\ ctx.connection # Placeholder
  /\ v # NoIdentity \/ ctx.identity # NoIdentity
  /\ ctx' = [ctx EXCEPT !.identity = v]
  /\ dirty' = [i \in Inst |-> i \in live]
  /\ calls' = <<>>
  /\ lastOp' = [name |-> "context", arg |-> 0, again |-> FALSE]
  /\ solo' = IF Tracked THEN SoloIdle ELSE solo
  /\ UNCHANGED <<inst, live, handles, registered, mirror, heap, pkField, trial>>

(***************************************************************************)
(* Steps of an instance.                                                   *)
(***************************************************************************)
HasCall(cs, op) == \E k \in DOMAIN cs : cs[k].op = op

EffectRun(i) ==
  /\ i \in live /\ dirty[i]
  /\ \E r \in {Effect(inst[i], ctx, i, Len(handles) + 1)} :
       /\ HasCall(r.calls, "subscribe") => Len(handles) < MaxSubs
       /\ inst' = [inst EXCEPT ![i] = r.q]
       /\ calls' = r.calls
       /\ solo' = SoloLifecycle(i, HasCall(r.calls, "subscribe"))
       /\ \E g \in {ApplyCalls(r.calls, handles, registered, ctx)} :
            /\ handles' = g.handles
            /\ registered' = g.registered
  /\ dirty' = [dirty EXCEPT ![i] = FALSE]
  /\ lastOp' = [name |-> "effect", arg |-> i, again |-> FALSE]
  /\ UNCHANGED <<ctx, live, mirror, heap, pkField, trial>>

Cleanup(i) ==
  /\ i \in live
  /\ \E r \in {cleanup(inst[i], i)} :
       /\ inst' = [inst EXCEPT ![i] = r.q]
       /\ calls' = r.calls
       /\ \E g \in {ApplyCalls(r.calls, handles, registered, ctx)} :
            /\ handles' = g.handles
            /\ registered' = g.registered
  /\ solo' = SoloLifecycle(i, TRUE)
  /\ lastOp' = [name |-> "cleanup", arg |-> i,
                again |-> lastOp.name = "cleanup" /\ lastOp.arg = i]
  /\ UNCHANGED <<ctx, dirty, live, mirror, heap, pkField, trial>>

(***************************************************************************)
(* Observers.  subscribeRows and subscribeEvents are two subscribers made  *)
(* by createSubscriber, each with its own count of registered effects:     *)
(* the first effect that registers starts it, and when its last effect is  *)
(* destroyed its stop function runs, which is cleanup().                   *)
(***************************************************************************)
MaxObservers == 2

\* an effect reads .rows (or .active)
ObserveRows(i) ==
  /\ i \in live
  /\ inst[i].rowsSubscribers < MaxObservers
  /\ inst' = [inst EXCEPT ![i].rowsSubscribers = @ + 1]
  /\ calls' = <<>>
  /\ lastOp' = [name |-> "observe", arg |-> i, again |-> FALSE]
  /\ UNCHANGED <<ctx, dirty, live, handles, registered, mirror, heap, pkField, solo, trial>>

\* an effect registers a callback through .events
ObserveEvents(i) ==
  /\ i \in live
  /\ inst[i].eventsSubscribers < MaxObservers
  /\ inst' = [inst EXCEPT ![i].eventsSubscribers = @ + 1]
  /\ calls' = <<>>
  /\ lastOp' = [name |-> "observe", arg |-> i, again |-> FALSE]
  /\ UNCHANGED <<ctx, dirty, live, handles, registered, mirror, heap, pkField, solo, trial>>

\* the instance after one of the remaining effects of a subscriber is gone
Released(q, i, remaining) ==
  IF remaining = 0 THEN cleanup(q, i) ELSE [q |-> q, calls |-> <<>>]

Unobserve(i, r) ==
  /\ inst' = [inst EXCEPT ![i] = r.q]
  /\ calls' = r.calls
  /\ \E g \in {ApplyCalls(r.calls, handles, registered, ctx)} :
       /\ handles' = g.handles
       /\ registered' = g.registered
  /\ solo' = solo
  /\ lastOp' = [name |-> "unobserve", arg |-> i, again |-> FALSE]
  /\ UNCHANGED <<ctx, dirty, live, mirror, heap, pkField, trial>>

\* an effect that read .rows is destroyed
UnobserveRows(i) ==
  /\ i \in live
  /\ inst[i].rowsSubscribers > 0
  /\ \E r \in {Released([inst[i] EXCEPT !.rowsSubscribers = @ - 1], i,
                          inst[i].rowsSubscribers - 1)} : Unobserve(i, r)

\* an effect that registered a callback through .events is destroyed
UnobserveEvents(i) ==
  /\ i \in live
  /\ inst[i].eventsSubscribers > 0
  /\ \E r \in {Released([inst[i] EXCEPT !.eventsSubscribers = @ - 1], i,
                          inst[i].eventsSubscribers - 1)} : Unobserve(i, r)

\* The connection delivers the subscription-applied acknowledgment of a
\* handle: over the open connection the request was sent on, also when the
\* handle was unsubscribed in the meantime.
AppliedUpTo(h, n) ==
  /\ Flushed
  /\ h \in DOMAIN handles
  /\ ~ handles[h].closed
  /\ handles[h].applied < n
  /\ \E r \in {onApplied(inst[handles[h].owner], heap, ctx, mirror)} :
       /\ inst' = [inst EXCEPT ![handles[h].owner] = r.q]
       /\ heap' = r.hp
       /\ solo' = SoloApplied(handles[h].owner)
  /\ handles' = [handles EXCEPT ![h].applied = @ + 1]
  /\ calls' = <<>>
  /\ lastOp' = [name |-> "applied", arg |-> 0, again |-> handles[h].applied > 0]
  /\ UNCHANGED <<ctx, dirty, live, registered, mirror, pkField, trial>>

Applied(h) == AppliedUpTo(h, MaxApplied)

(***************************************************************************)
(* Row changes of the table of connection c, applied to its mirror and     *)
(* then notified to the listeners.                                         *)
(***************************************************************************)
ConnOpen(c) == ctx.connection # c \/ ctx.isActive

KeyOf(o) == heap[o].row[colId]

Notify(kind, c, fresh, a, b) ==
  \E d \in {Dispatch(kind, registered[c],
                       [inst |-> inst, hp |-> heap \o fresh, calls |-> <<>>],
                       ctx.identity, pkField, a, b)} :
     /\ inst' = d.inst
     /\ heap' = d.hp
     /\ calls' = d.calls
     /\ solo' = SoloNotify(kind, c, fresh, a, b)

\* n bounds the row objects the connection has allocated
SrvInsertUpTo(c, row, n) ==
  /\ Flushed /\ ConnOpen(c)
  /\ Len(heap) < n
  /\ pkField = <<>> \/ \A o \in mirror[c] : KeyOf(o) # row[colId]
  /\ mirror' = [mirror EXCEPT ![c] = @ \cup {Len(heap) + 1}]
  /\ Notify("insert", c, <<MkObj(row)>>, Len(heap) + 1, 0)
  /\ lastOp' = [name |-> "insert", arg |-> Len(heap) + 1, again |-> FALSE]
  /\ UNCHANGED <<ctx, dirty, live, handles, registered, pkField, trial>>

SrvInsert(c, row) == SrvInsertUpTo(c, row, MaxObjs)

SrvUpdateUpTo(c, old, row, n) ==
  /\ Flushed /\ ConnOpen(c)
  /\ Len(heap) < n
  /\ old \in mirror[c]
  /\ KeyOf(old) = row[colId]
  /\ mirror' = [mirror EXCEPT ![c] = (@ \ {old}) \cup {Len(heap) + 1}]
  /\ Notify("update", c, <<MkObj(row)>>, old, Len(heap) + 1)
  /\ lastOp' = [name |-> "update", arg |-> old, again |-> FALSE]
  /\ UNCHANGED <<ctx, dirty, live, handles, registered, pkField, trial>>

SrvUpdate(c, old, row) == SrvUpdateUpTo(c, old, row, MaxObjs)

SrvDelete(c, old) ==
  /\ Flushed /\ ConnOpen(c)
  /\ old \in mirror[c]
  /\ mirror' = [mirror EXCEPT ![c] = @ \ {old}]
  /\ Notify("delete", c, <<>>, old, 0)
  /\ lastOp' = [name |-> "delete", arg |-> old, again |-> FALSE]
  /\ UNCHANGED <<ctx, dirty, live, handles, registered, pkField, trial>>

\* The connection hands an insert notification for a row object its table
\* cache already holds: a notification delivered again, or the one made for
\* a row of the snapshot of a subscription.
SrvReinsert(c, o) ==
  /\ Flushed /\ ConnOpen(c)
  /\ o \in mirror[c]
  /\ Notify("insert", c, <<>>, o, 0)
  /\ lastOp' = [name |-> "insert", arg |-> o, again |-> TRUE]
  /\ UNCHANGED <<ctx, dirty, live, handles, registered, mirror, pkField, trial>>

\* The update or delete notification just delivered is delivered a second
\* time (the new row of the update is the row object allocated last).
SrvAgain(c) ==
  /\ Flushed /\ ConnOpen(c)
  /\ lastOp.name \in {"update", "delete"} /\ ~ lastOp.again
  /\ Notify(lastOp.name, c, <<>>, lastOp.arg, Len(heap))
  /\ lastOp' = [lastOp EXCEPT !.again = TRUE]
  /\ UNCHANGED <<ctx, dirty, live, handles, registered, mirror, pkField, trial>>

(***************************************************************************)
(* Spec: the lifecycle of one instance against a context whose connection  *)
(* object, active flag and identity change.                                *)
(***************************************************************************)
Next ==
  \/ \E c \in RealConns, a \in BOOLEAN, id \in {NoIdentity} \cup Identities : InitializeConnection(c, a, id)
  \/ \E b \in BOOLEAN : SetActive(b)
  \/ \E v \in {NoIdentity} \cup Identities : SetIdentity(v)
  \/ \E i \in Inst : EffectRun(i)
  \/ \E i \in Inst : Cleanup(i)
  \/ \E h \in 1..MaxSubs : Applied(h)

Spec == Init /\ [][Next]_vars

(***************************************************************************)
(* SpecRows: one instance on one active connection whose table changes.    *)
(***************************************************************************)
InitRows ==
  /\ InitCommon
  /\ ctx = [connection |-> 1, isActive |-> TRUE, identity |-> NoIdentity]
  /\ heap = <<>>
  /\ mirror = [c \in RealConns |-> {}]
  /\ live = {1}
  /\ \E f \in Filters : inst = [i \in Inst |-> NewQuery(IF i = 1 THEN f ELSE NoExpr)]
  /\ dirty = [i \in Inst |-> i \in live]
  /\ solo = [i \in Inst |-> [rows |-> <<>>, hp |-> heap, calls |-> <<>>]]

NextRows ==
  \/ \E v \in {NoIdentity} \cup Identities : SetIdentity(v)
  \/ \E i \in Inst : EffectRun(i)
  \/ \E i \in Inst : Cleanup(i)
  \/ \E h \in 1..MaxSubs : Applied(h)
  \/ \E row \in RowVals : SrvInsert(1, row)
  \/ \E old \in 1..MaxObjs, row \in RowVals : SrvUpdate(1, old, row)
  \/ \E old \in 1..MaxObjs : SrvDelete(1, old)

SpecRows == InitRows /\ [][NextRows]_vars


(***************************************************************************)
(* SpecDup: one instance on one active connection that knows its identity; *)
(* the table changes, and the connection may deliver a notification or an  *)
(* acknowledgment more than once.                                          *)
(***************************************************************************)
MaxRows == 3
MaxAcks == 2

InitDup ==
  /\ InitCommon
  /\ ctx = [connection |-> 1, isActive |-> TRUE, identity |-> 1]
  /\ heap = <<>>
  /\ mirror = [c \in RealConns |-> {}]
  /\ live = {1}
  /\ \E f \in Filters : inst = [i \in Inst |-> NewQuery(IF i = 1 THEN f ELSE NoExpr)]
  /\ dirty = [i \in Inst |-> i \in live]
  /\ solo = [i \in Inst |-> [rows |-> <<>>, hp |-> heap, calls |-> <<>>]]

NextDup ==
  \/ \E i \in Inst : EffectRun(i)
  \/ \E h \in 1..MaxSubs : AppliedUpTo(h, MaxAcks)
  \/ \E row \in RowVals : SrvInsertUpTo(1, row, MaxRows)
  \/ \E old \in 1..MaxRows, row \in RowVals : SrvUpdateUpTo(1, old, row, MaxRows)
  \/ \E old \in 1..MaxRows : SrvDelete(1, old)
  \/ \E o \in 1..MaxRows : SrvReinsert(1, o)
  \/ SrvAgain(1)

SpecDup == InitDup /\ [][NextDup]_vars

(***************************************************************************)
(* SpecKeyless: two instances over a table without primary key (it has no  *)
(* update notifications) whose rows the connection already holds.          *)
(***************************************************************************)
InitKeyless ==
  /\ handles = <<>>
  /\ registered = [c \in RealConns |-> <<>>]
  /\ pkField = <<>>
  /\ calls = <<>>
  /\ lastOp = [name |-> "new", arg |-> 0, again |-> FALSE]
  /\ trial = NoTrial
  /\ ctx = [connection |-> 1, isActive |-> TRUE, identity |-> 1]
  /\ heap = <<MkObj(MkRow(1, 7, 1)), MkObj(MkRow(2, 8, 2))>>
  /\ mirror = (1 :> {1, 2}) @@ (2 :> {})
  /\ live = {1, 2}
  /\ \E f \in Filters, g \in Filters :
        inst = [i \in Inst |-> NewQuery(IF i = 1 THEN f ELSE g)]
  /\ dirty = [i \in Inst |-> i \in live]
  /\ solo = [i \in Inst |-> [rows |-> <<>>, hp |-> heap, calls |-> <<>>]]

\* no cache holds more entries than the table has row objects
NoCacheOutgrown == \A i \in Inst : Len(inst[i].rows) <= Len(heap)

NextKeyless ==
  \/ \E i \in Inst : EffectRun(i)
  \/ \E i \in Inst : Cleanup(i)
  \/ \E h \in 1..MaxSubs : Applied(h)
  \/ \E old \in 1..MaxObjs : SrvDelete(1, old)
  \/ \E o \in 1..MaxObjs : NoCacheOutgrown /\ SrvReinsert(1, o)

SpecKeyless == InitKeyless /\ [][NextKeyless]_vars

(***************************************************************************)
(* SpecObs: one instance on an active connection, observed by effects that *)
(* read .rows and effects that register callbacks through .events.         *)
(***************************************************************************)
InitObs ==
  /\ InitCommon
  /\ ctx = [connection |-> 1, isActive |-> TRUE, identity |-> 1]
  /\ heap = InitHeap
  /\ mirror = (1 :> {1, 2}) @@ (2 :> {3})
  /\ live = {1}
  /\ \E f \in Filters : inst = [i \in Inst |-> NewQuery(IF i = 1 THEN f ELSE NoExpr)]
  /\ dirty = [i \in Inst |-> i \in live]
  /\ solo = [i \in Inst |-> [rows |-> <<>>, hp |-> heap, calls |-> <<>>]]

NextObs ==
  \/ \E v \in Identities : SetIdentity(v)
  \/ \E i \in Inst : EffectRun(i)
  \/ \E h \in 1..MaxSubs : Applied(h)
  \/ \E i \in Inst : ObserveRows(i)
  \/ \E i \in Inst : ObserveEvents(i)
  \/ \E i \in Inst : UnobserveRows(i)
  \/ \E i \in Inst : UnobserveEvents(i)

SpecObs == InitObs /\ [][NextObs]_vars

(***************************************************************************)
(* SpecTwo: two instances over the same table of one active connection.    *)
(* The variable solo carries, for each instance, the cache, the row        *)
(* objects and the callback invocations it would have had alone: the same  *)
(* steps, applied to row objects no other instance has touched.            *)
(***************************************************************************)
InitTwo ==
  /\ InitCommon
  /\ ctx = [connection |-> 1, isActive |-> TRUE, identity |-> 1]
  /\ heap = <<>>
  /\ mirror = [c \in RealConns |-> {}]
  /\ live = {1, 2}
  /\ \E f \in Filters, g \in Filters :
        inst = [i \in Inst |-> NewQuery(IF i = 1 THEN f ELSE g)]
  /\ dirty = [i \in Inst |-> i \in live]
  /\ solo = [i \in Inst |-> [rows |-> <<>>, hp |-> heap, calls |-> <<>>]]

NextTwo ==
  \/ \E i \in Inst : EffectRun(i)
  \/ \E i \in Inst : Cleanup(i)
  \/ \E h \in 1..MaxSubs : Applied(h)
  \/ \E row \in RowVals : SrvInsert(1, row)
  \/ \E old \in 1..MaxObjs, row \in RowVals : SrvUpdate(1, old, row)
  \/ \E old \in 1..MaxObjs : SrvDelete(1, old)

SpecTwo == InitTwo /\ [][NextTwo]_vars

(***************************************************************************)
(* SpecLive: an instance built with a pending identity filter while the    *)
(* context holds its placeholder; the provider hands over one connection,  *)
(* whose active flag and identity change.  The $effect scheduled by a      *)
(* context change runs, and an open connection acknowledges a subscribe    *)
(* request.                                                                *)
(***************************************************************************)
InitLive ==
  /\ InitCommon
  /\ ctx = [connection |-> Placeholder, isActive |-> FALSE, identity |-> NoIdentity]
  /\ heap = InitHeap
  /\ mirror = (1 :> {1, 2}) @@ (2 :> {3})
  /\ live = {1}
  /\ \E f \in PendingFilters : inst = [i \in Inst |-> NewQuery(IF i = 1 THEN f ELSE NoExpr)]
  /\ dirty = [i \in Inst |-> i \in live]
  /\ solo = [i \in Inst |-> [rows |-> <<>>, hp |-> heap, calls |-> <<>>]]

\* A context change is a task of its own (its effect has run before the
\* next one); the changes stop when the handles of the model are used up.
LiveTask == Flushed /\ Len(handles) < MaxSubs

NextLive ==
  \/ \E c \in RealConns, a \in BOOLEAN, id \in {NoIdentity} \cup Identities :
        LiveTask /\ ctx.connection = Placeholder /\ InitializeConnection(c, a, id)
  \/ \E b \in BOOLEAN : LiveTask /\ SetActive(b)
  \/ \E v \in {NoIdentity} \cup Identities :
        LiveTask /\ v # ctx.identity /\ SetIdentity(v)
  \/ \E i \in Inst : EffectRun(i)
  \/ \E h \in 1..MaxSubs : Applied(h)

SpecLive ==
  /\ InitLive /\ [][NextLive]_vars
  /\ WF_vars(EffectRun(1))
  /\ \A h \in 1..MaxSubs : WF_vars(Applied(h))

(***************************************************************************)
(* Properties.                                                             *)
(***************************************************************************)
TypeOK == \A i \in Inst : inst[i].state \in {"loading", "ready"}

Resolvable(q, c) ==
  q.whereClause.type = "none"
    \/ ResolveTable[q.whereClause][c.identity].type # "undefined"

\* the handles instance i requested and has not unsubscribed
LiveHandles(i) == {h \in DOMAIN handles : handles[h].owner = i /\ ~ handles[h].unsub}

Listening(i) == \E c \in RealConns : i \in Range(registered[c])

TornDown(i) ==
  /\ inst[i].subscription = 0
  /\ LiveHandles(i) = {}
  /\ inst[i].eventListeners = <<>>
  /\ ~ Listening(i)
  /\ inst[i].rows = <<>>
  /\ inst[i].state = "loading"

CacheVals(i) == [k \in DOMAIN inst[i].rows |-> heap[inst[i].rows[k]].row]

MirrorMatch(i) ==
  IF ctx.connection = Placeholder THEN {}
  ELSE {heap[o].row : o \in {x \in mirror[ctx.connection] :
                               Passes(inst[i], heap[x].row, ctx.identity)}}

CacheIsFilteredMirror(i) ==
  /\ Range(CacheVals(i)) = MirrorMatch(i)
  /\ Len(inst[i].rows) = Cardinality(MirrorMatch(i))

\* C1: whenever the instance is ready (and its effect is not pending), the
\* row cache holds exactly the rows of the table mirror that pass the filter,
\* each once.
C1_ReadyCacheIsFilteredMirror ==
  (Flushed /\ inst[1].state = "ready") => CacheIsFilteredMirror(1)

\* C2: an instance never has two subscriptions requested and not yet
\* unsubscribed, and the one it has is the handle it tracks.
C2_AtMostOneSubscription ==
  \A i \in Inst :
     /\ Cardinality(LiveHandles(i)) <= 1
     /\ LiveHandles(i) \subseteq {inst[i].subscription}

C2_Witness ==
  \E h1, h2 \in DOMAIN handles :
     /\ handles[h1].owner = 1 /\ handles[h1].unsub
     /\ LiveHandles(1) = {h2}

\* C3: an effect run that finds a subscription held and compiles the query
\* string last subscribed makes no call and leaves the instance, its
\* listeners and the handles as they were.
C3_SameQueryIsNoOp ==
  [][\A i \in Inst :
       (/\ lastOp'.name = "effect" /\ lastOp'.arg = i /\ dirty[i]
        /\ inst[i].subscription # 0
        /\ ctx.isActive /\ Resolvable(inst[i], ctx)
        /\ BuildQuery(inst[i], ctx) = inst[i].lastSubscribedQuery)
       => (/\ calls' = <<>>
           /\ inst'[i] = inst[i]
           /\ registered' = registered
           /\ handles' = handles)]_vars

C3_Witness ==
  /\ lastOp.name = "effect" /\ calls = <<>>
  /\ inst[1].subscription # 0
  /\ inst[1].state = "ready"
  /\ inst[1].rows # <<>>

\* C4: while the connection is active and the filter cannot be resolved, the
\* instance (once its effect has run) holds no subscription, has requested
\* none in that run and is loading.
C4_UnresolvedStaysLoading ==
  \A i \in live :
     (Flushed /\ ctx.isActive /\ ~ Resolvable(inst[i], ctx))
       => (/\ inst[i].subscription = 0
           /\ LiveHandles(i) = {}
           /\ ~ HasCall(calls, "subscribe")
           /\ inst[i].state = "loading")

\* C6: the acknowledgment of a handle the instance no longer tracks changes
\* neither the instance (state, cache) nor the row objects.
C6_StaleAppliedIsNoOp ==
  [][\A h \in DOMAIN handles :
       (/\ lastOp'.name = "applied"
        /\ handles'[h].applied = handles[h].applied + 1
        /\ inst[handles[h].owner].subscription # h)
       => (inst' = inst /\ heap' = heap)]_vars

\* C7: after the effect has run with the connection inactive the instance
\* holds no subscription, no listener, an empty cache, and is loading.
C7_InactiveTeardown ==
  \A i \in live :
     (lastOp.name = "effect" /\ lastOp.arg = i /\ ~ ctx.isActive) => TornDown(i)

\* C8: after cleanup() the instance holds no subscription, no listener, an
\* empty cache and is loading; a second consecutive cleanup() makes no
\* unsubscribe and no listener-removal call and ends in the same state.
C8_CleanupIdempotent ==
  \A i \in live :
     (lastOp.name = "cleanup" /\ lastOp.arg = i)
       => (TornDown(i) /\ (lastOp.again => calls = <<>>))

C8_Witness ==
  /\ lastOp.name = "cleanup" /\ lastOp.arg = 1 /\ lastOp.again
  /\ \E h \in DOMAIN handles : handles[h].owner = 1 /\ handles[h].unsub /\ handles[h].applied > 0

\* cleanup() has run on instance i since its last subscribe request
CleanedUp(i) ==
  /\ ~ inst[i].hasSetupEventListeners
  /\ \E h \in DOMAIN handles : handles[h].owner = i

\* C9: once cleanup() has run, no later step makes the instance subscribe,
\* register listeners, refill its cache or leave loading.
C9_DestroyedIsTerminal ==
  [][\A i \in live :
       (CleanedUp(i) /\ TornDown(i)) => (TornDown(i)' /\ ~ HasCall(calls', "subscribe"))]_vars

\* C5: an instance built with a pending identity filter: once the connection
\* is active and the identity known for good, the instance ends up
\* subscribed to the query of the resolved filter, ready, its cache holding
\* the mirror rows that match the resolved filter.
C5_PendingEventuallyReady ==
  <>[](ctx.isActive /\ ctx.identity # NoIdentity)
    => <>[](/\ inst[1].subscription # 0
            /\ inst[1].lastSubscribedQuery = BuildQuery(inst[1], ctx)
            /\ inst[1].state = "ready"
            /\ CacheIsFilteredMirror(1))

C5_Witness ==
  /\ ~ Resolvable(inst[1], [ctx EXCEPT !.identity = NoIdentity])
  /\ ctx.isActive /\ ctx.identity # NoIdentity
  /\ inst[1].state = "ready"
  /\ inst[1].lastSubscribedQuery = BuildQuery(inst[1], ctx)
  /\ inst[1].rows # <<>>

\* C10: two instances over the same table of one connection are independent:
\* after every lifecycle step and every row-change notification, the cache of
\* each instance (the row objects and their contents) and the callbacks
\* invoked on it are the ones it would have had without the other instance.
C10_InstancesIndependent ==
  Tracked =>
    \A i \in live :
      /\ inst[i].rows = solo[i].rows
      /\ \A k \in DOMAIN inst[i].rows :
            heap[inst[i].rows[k]].row = solo[i].hp[inst[i].rows[k]].row
      /\ Callbacks(calls, i) = solo[i].calls

\* the rows of the cache of instance i have pairwise different primary keys
PkUnique(i) ==
  \A j, k \in DOMAIN inst[i].rows :
     j # k => ~ PkEqual(heap[inst[i].rows[j]].row[pkField],
                        heap[inst[i].rows[k]].row[pkField])

\* C11: over a table with a primary key, the cache never holds two rows with
\* the same primary-key value, whatever notifications arrive, those
\* delivered more than once and the inserts of seeded rows included.
C11_NoTwoRowsWithSameKey ==
  \A i \in live : pkField # <<>> => PkUnique(i)

\* the subscription instance i tracks has been acknowledged
Acknowledged(i) ==
  inst[i].subscription # 0 /\ handles[inst[i].subscription].applied > 0

\* C12: over a table without primary key, an insert notification for a row
\* the acknowledged subscription has in its cache from the snapshot leaves
\* the cache as it is and invokes no insert callback.
C12_SeededRowNotAppendedAgain ==
  [][\A i \in live :
       (/\ pkField = <<>>
        /\ lastOp'.name = "insert" /\ lastOp'.again
        /\ Acknowledged(i)
        /\ lastOp'.arg \in Range(inst[i].rows))
       => (inst'[i].rows = inst[i].rows /\ Callbacks(calls', i) = <<>>)]_vars

\* C13: the acknowledgment of the subscription the instance tracks, the
\* first or a repeated one, leaves the instance ready with a cache that holds
\* exactly the rows of the table mirror that pass the filter, each once,
\* whatever notifications were processed since the subscribe request.
C13_AckSeedsFilteredMirror ==
  [][\A h \in DOMAIN handles :
       (/\ lastOp'.name = "applied"
        /\ handles'[h].applied = handles[h].applied + 1
        /\ inst[handles[h].owner].subscription = h)
       => (/\ inst'[handles[h].owner].state = "ready"
           /\ CacheIsFilteredMirror(handles[h].owner)')]_vars

\* a repeated acknowledgment has just seeded a cache that keeps one row of
\* the mirror and leaves another out
C13_Witness ==
  /\ lastOp.name = "applied" /\ lastOp.again
  /\ Acknowledged(1) /\ handles[inst[1].subscription].applied = MaxAcks
  /\ inst[1].state = "ready"
  /\ inst[1].rows # <<>>
  /\ \E o \in mirror[1] : ~ Passes(inst[1], heap[o].row, ctx.identity)

\* the effects that observe instance i
Observers(i) == inst[i].rowsSubscribers + inst[i].eventsSubscribers

\* the fields of instance i other than the counts of its subscribers
Unobserved(q) == [q EXCEPT !.rowsSubscribers = 0, !.eventsSubscribers = 0]

\* C14: when an observing effect goes away and another observer of .rows
\* or of .events remains, the instance is not torn down: nothing is
\* unsubscribed, no listener is removed, and its fields stay as they were.
C14_TornDownOnlyWithoutObserver ==
  [][\A i \in live :
       (lastOp'.name = "unobserve" /\ lastOp'.arg = i /\ Observers(i)' > 0)
       => (calls' = <<>> /\ Unobserved(inst'[i]) = Unobserved(inst[i]))]_vars

\* a row cached by instance i before the step has the primary key that row
\* object o has after it
KeyCached(i, o) ==
  \E k \in DOMAIN inst[i].rows :
     PkEqual(heap[inst[i].rows[k]].row[pkField], heap'[o].row[pkField])

\* the filter of instance i accepts row object o and, over a table with a
\* primary key, no cached row has its key
Insertable(i, o) ==
  /\ Passes(inst[i], heap'[o].row, ctx.identity)
  /\ pkField # <<>> => ~ KeyCached(i, o)

\* C15: an insert notification appends the row at the end of the cache and
\* invokes the insert callback once exactly when the filter accepts the row
\* and no cached row has its primary key; otherwise the cache stays as it is
\* and no callback is invoked.
C15_InsertAppendsIffAccepted ==
  [][\A i \in live :
       (lastOp'.name = "insert" /\ Listening(i))
       => IF Insertable(i, lastOp'.arg)
          THEN /\ inst'[i].rows = Append(inst[i].rows, lastOp'.arg)
               /\ Callbacks(calls', i) = <<Call("onInsert", i, lastOp'.arg, 0)>>
          ELSE /\ inst'[i].rows = inst[i].rows
               /\ Callbacks(calls', i) = <<>>]_vars

\* the rows of the cache of instance i before the step, those with the
\* primary key of row object o left out
WithoutKey(i, o) ==
  SelectSeq(inst[i].rows,
            LAMBDA x : ~ PkEqual(heap[x].row[pkField], heap[o].row[pkField]))

\* the filter of instance i accepts the old row of the update of the step
OldIn(i) == Passes(inst[i], heap[lastOp'.arg].row, ctx.identity)

\* the filter of instance i accepts the new row of the update of the step
NewIn(i) == Passes(inst[i], heap'[Len(heap')].row, ctx.identity)

HoldsKey(i, k, o) ==
  PkEqual(heap[inst[i].rows[k]].row[pkField], heap[o].row[pkField])

\* the cache of instance i holds the row with the primary key of object o
Cached(i, o) == \E k \in DOMAIN inst[i].rows : HoldsKey(i, k, o)

\* the row callbacks of instance i among cs, a thrown error left out
RowCallbacks(cs, i) == SelectSeq(Callbacks(cs, i), LAMBDA x : x.op # "throw")

\* C17: an update notification whose old and new rows both pass the filter
\* leaves the cache holding the same objects at the same positions and
\* invokes the update callback once, with (old row, new row), and no insert
\* or delete callback; when the cache holds the row, the fields of the new
\* row are copied onto the cached object with the key of the old row and
\* onto no other cached object, and nothing is thrown.
C17_StayInMutatesInPlace ==
  [][\A i \in live :
       (/\ lastOp'.name = "update" /\ Listening(i)
        /\ OldIn(i) /\ NewIn(i))
       => (/\ inst'[i].rows = inst[i].rows
           /\ RowCallbacks(calls', i) =
                <<Call("onUpdate", i, lastOp'.arg, Len(heap'))>>
           /\ Cached(i, lastOp'.arg) =>
                /\ Callbacks(calls', i) = RowCallbacks(calls', i)
                /\ \A k \in DOMAIN inst[i].rows :
                     heap'[inst[i].rows[k]].row =
                       IF HoldsKey(i, k, lastOp'.arg)
                       THEN heap'[Len(heap')].row
                       ELSE heap[inst[i].rows[k]].row)]_vars

\* an update was delivered for a cached row that stays in the filter: the
\* cached object is the old row object, not the new one, carries the fields
\* of the new row, and another row is cached beside it
C17_Witness ==
  /\ lastOp.name = "update"
  /\ calls = <<Call("onUpdate", 1, lastOp.arg, Len(heap))>>
  /\ Len(inst[1].rows) = 2
  /\ lastOp.arg \in Range(inst[1].rows)
  /\ lastOp.arg # Len(heap)
  /\ Len(heap) \notin Range(inst[1].rows)
  /\ heap[lastOp.arg].row = heap[Len(heap)].row
  /\ \E o \in Range(inst[1].rows) : heap[o].row # heap[Len(heap)].row

(***************************************************************************)
(* The functions of the filter layer on their own: an expression built     *)
(* with eq, not, and, or, an identity of the client (or none) and two      *)
(* rows are drawn, and one of the functions is applied to them.            *)
(***************************************************************************)
MaxChildren == 2
MaxDepth == 2

SeqsUpTo(S, n) == UNION {[1..k -> S] : k \in 0..n}

Leaves == {eq(colGId, Num(7)), eq(colOwn, Ident(1)), eq(colOwn, UndefinedValue)}

\* the expressions of S and those one constructor call makes of them
Built(S) ==
  S \cup {not(x) : x \in S}
    \cup {and(cs) : cs \in SeqsUpTo(S, MaxChildren)}
    \cup {or(cs) : cs \in SeqsUpTo(S, MaxChildren)}

RECURSIVE ExprsOfDepth(_)
ExprsOfDepth(d) == IF d = 0 THEN Leaves ELSE Built(ExprsOfDepth(d - 1))

Exprs == ExprsOfDepth(MaxDepth)

\* no query instance is constructed
InitIdle ==
  /\ handles = <<>>
  /\ registered = [c \in RealConns |-> <<>>]
  /\ pkField = colId
  /\ calls = <<>>
  /\ lastOp = [name |-> "new", arg |-> 0, again |-> FALSE]
  /\ ctx = [connection |-> Placeholder, isActive |-> FALSE, identity |-> NoIdentity]
  /\ heap = <<>>
  /\ mirror = [c \in RealConns |-> {}]
  /\ live = {}
  /\ inst = [i \in Inst |-> NewQuery(NoExpr)]
  /\ dirty = [i \in Inst |-> FALSE]
  /\ solo = [i \in Inst |-> [rows |-> <<>>, hp |-> heap, calls |-> <<>>]]

InitFn ==
  /\ InitIdle
  /\ \E e \in Exprs \cup Filters \cup PendingFilters, id \in ClientIdentities, r1 \in RowVals, r2 \in RowVals :
       trial = [fn |-> "input", expr |-> e, clientIdentity |-> id,
                row |-> r1, newRow |-> r2, out |-> <<>>]

\* the call fn(...) was made on the drawn input and returned out
Returned(fn, out) ==
  /\ trial.fn = "input"
  /\ trial' = [trial EXCEPT !.fn = fn, !.out = out]
  /\ UNCHANGED <<ctx, inst, dirty, live, handles, registered, mirror, heap,
                 pkField, calls, lastOp, solo>>

Evaluate ==
  /\ trial.expr # NoExpr
  /\ Returned("evaluate", evaluate(trial.expr, trial.row, trial.clientIdentity))

EvaluateNot ==
  /\ trial.expr # NoExpr
  /\ Returned("evaluateNot",
              evaluate(not(trial.expr), trial.row, trial.clientIdentity))

Compile ==
  /\ trial.expr # NoExpr
  /\ Returned("toQueryString", toQueryString(trial.expr, trial.clientIdentity))

\* toQueryString(not(e), clientIdentity) for the drawn expression e
CompileNegation ==
  /\ trial.expr # NoExpr
  /\ Returned("toQueryStringNot",
              toQueryString(not(trial.expr), trial.clientIdentity))

\* classifyMembership reads the tables of the where clauses of the model
Classify ==
  /\ trial.expr \in WhereClauses
  /\ Returned("classifyMembership",
              classifyMembership(trial.expr, trial.row, trial.newRow,
                                 trial.clientIdentity))

NextFn == Evaluate \/ EvaluateNot \/ Compile \/ CompileNegation \/ Classify

SpecFn == InitFn /\ [][NextFn]_vars

\* the drawn filter accepts the drawn old row, and the drawn new row
TrialOldIn == evaluate(trial.expr, trial.row, trial.clientIdentity)
TrialNewIn == evaluate(trial.expr, trial.newRow, trial.clientIdentity)

\* the drawn expression resolves under the drawn identity
TrialResolves ==
  resolvePendingExpression(trial.expr, trial.clientIdentity) # Unresolved

\* C18: classifyMembership returns one of enter, leave, stayIn, stayOut;
\* with no filter it returns stayIn, with a filter that does not resolve
\* stayOut, and otherwise the result is the one the truth table gives for
\* (evaluate(filter, oldRow), evaluate(filter, newRow)): (F,F) stayOut,
\* (F,T) enter, (T,F) leave, (T,T) stayIn.
C18_ClassifyTruthTable ==
  trial.fn = "classifyMembership" =>
    /\ trial.out \in {"enter", "leave", "stayIn", "stayOut"}
    /\ IF trial.expr = NoExpr THEN trial.out = "stayIn"
       ELSE /\ (trial.out = "stayOut") = (~ TrialOldIn /\ ~ TrialNewIn)
            /\ (trial.out = "enter") = (~ TrialOldIn /\ TrialNewIn)
            /\ (trial.out = "leave") = (TrialOldIn /\ ~ TrialNewIn)
            /\ (trial.out = "stayIn") = (TrialOldIn /\ TrialNewIn)
            /\ ~ TrialResolves => trial.out = "stayOut"

\* a filter that waits for the identity, resolved, classified an update
\* that takes the row out of the filter
C18_Witness ==
  /\ trial.fn = "classifyMembership"
  /\ trial.expr.type = "pending"
  /\ TrialResolves
  /\ trial.out = "leave"

(***************************************************************************)
(* A reference interpreter of the query text: the WHERE condition, a token *)
(* sequence, is parsed as a disjunction of conjunctions of comparisons and *)
(* parenthesised conditions and evaluated on one row of the relation.  A   *)
(* text that is no condition selects no row.                               *)
(***************************************************************************)
\* the column of the relation that holds the field of the row
ColumnName(field) == JoinChars(camelToSnakeCase(field))

SqlKeywords == {"(", ")", " AND ", " OR ", " = ", " != ", "NOT (", "throw"}

\* the text of the value the row holds in the column
SqlValue(row, column) ==
  formatValue(row[CHOOSE f \in DOMAIN row : ColumnName(f) = column])

NoCondition == [ok |-> FALSE, val |-> FALSE, rest |-> <<>>]

\* column = literal or column != literal at the head of toks
SqlComparison(toks, row) ==
  IF /\ Len(toks) >= 3
     /\ \E f \in DOMAIN row : ColumnName(f) = toks[1]
     /\ toks[2] \in {" = ", " != "}
     /\ toks[3] \notin SqlKeywords
  THEN [ok |-> TRUE,
        val |-> (SqlValue(row, toks[1]) = toks[3]) <=> (toks[2] = " = "),
        rest |-> SubSeq(toks, 4, Len(toks))]
  ELSE NoCondition

\* the condition r read after "(", closed by ")"
SqlClosed(r) ==
  IF r.ok /\ r.rest # <<>> /\ Head(r.rest) = ")"
  THEN [r EXCEPT !.rest = Tail(r.rest)]
  ELSE NoCondition

\* the value v of the left operand joined with the right operand r
SqlJoined(kind, v, r) ==
  IF ~ r.ok THEN NoCondition
  ELSE [r EXCEPT !.val = IF kind = " AND " THEN v /\ r.val ELSE v \/ r.val]

RECURSIVE SqlOr(_, _)
RECURSIVE SqlAnd(_, _)
RECURSIVE SqlFactor(_, _)
SqlFactor(toks, row) ==
  IF toks = <<>> THEN NoCondition
  ELSE IF Head(toks) = "(" THEN SqlClosed(SqlOr(Tail(toks), row))
  ELSE SqlComparison(toks, row)

\* the operand l followed by the operands that kind joins to it
SqlRest(kind, l, row) ==
  IF l.ok /\ l.rest # <<>> /\ Head(l.rest) = kind
  THEN SqlJoined(kind, l.val,
                 IF kind = " AND " THEN SqlAnd(Tail(l.rest), row)
                 ELSE SqlOr(Tail(l.rest), row))
  ELSE l

SqlAnd(toks, row) == SqlRest(" AND ", SqlFactor(toks, row), row)

SqlOr(toks, row) == SqlRest(" OR ", SqlAnd(toks, row), row)

\* the whole of toks is a condition
SqlWhole(r) == r.ok /\ r.rest = <<>>

\* the query with the condition toks selects row from the relation {row}
Selects(toks, row) == SqlWhole(SqlOr(toks, row)) /\ SqlOr(toks, row).val

\* C19: for an expression that resolves under the identity, evaluate is
\* true of a row exactly when the reference interpreter of the text that
\* toQueryString compiles selects the row from the relation holding it.
C19_EvaluatorCompilerAgree ==
  (trial.fn = "toQueryString" /\ TrialResolves)
    => (TrialOldIn <=> Selects(trial.out, trial.row))

\* C20 as stated: evaluate(not(e), r) is the negation of evaluate(e, r),
\* whether or not the identity is available.
C20_NotNegates ==
  trial.fn = "evaluateNot" => (trial.out <=> ~ TrialOldIn)

\* C20: when e resolves under the identity, evaluate(not(e), r) is the
\* negation of evaluate(e, r); when e does not resolve, evaluate(e, r) and
\* evaluate(not(e), r) are both false.
C20_NotNegatesWhenResolved ==
  trial.fn = "evaluateNot" =>
    IF TrialResolves THEN trial.out <=> ~ TrialOldIn
    ELSE ~ trial.out /\ ~ TrialOldIn

\* the negation of an expression that waited for the identity, and got it,
\* was evaluated and accepts the row
C20_Witness ==
  /\ trial.fn = "evaluateNot"
  /\ trial.expr.type = "pending"
  /\ trial.clientIdentity # NoIdentity
  /\ TrialResolves
  /\ trial.out

\* C21: for an expression e that resolves under the identity, the text that
\* toQueryString compiles for not(e) holds no negation operator (the
\* fallback NOT ( ... ) is not reached) and is not the thrown error.
C21_NoLiteralNegation ==
  (trial.fn = "toQueryStringNot" /\ TrialResolves)
    => /\ "NOT (" \notin Range(trial.out)
       /\ "throw" \notin Range(trial.out)

\* the negation of a join that holds a join of the other kind and waited for
\* the identity was compiled: the text holds !=, both joins and parentheses
C21_Witness ==
  /\ trial.fn = "toQueryStringNot"
  /\ trial.expr.type \in {"and", "or"}
  /\ trial.clientIdentity # NoIdentity
  /\ \E k \in DOMAIN trial.expr.children : trial.expr.children[k].type = "pending"
  /\ TrialResolves
  /\ {" != ", " AND ", " OR ", "("} \subseteq Range(trial.out)

\* the expression is a comparison: eq, or not over eq
IsLeafComparison(e) ==
  e.type = "eq" \/ (e.type = "not" /\ e.child.type = "eq")

\* the resolved form of the drawn expression
TrialResolved == resolvePendingExpression(trial.expr, trial.clientIdentity)

\* the drawn expression resolves to a join of two or more leaf comparisons
TrialFlatJoin ==
  /\ TrialResolved.type \in {"and", "or"}
  /\ Len(TrialResolved.children) >= 2
  /\ \A k \in DOMAIN TrialResolved.children :
        IsLeafComparison(TrialResolved.children[k])

\* C22: a top-level And or Or whose children are all leaf comparisons
\* compiles to the children joined by AND / OR with no surrounding
\* parentheses, and so does the De Morgan result of a top-level Not over it.
C22_TopLevelJoinUnparenthesized ==
  (trial.fn \in {"toQueryString", "toQueryStringNot"} /\ TrialFlatJoin)
    => ("(" \notin Range(trial.out) /\ ")" \notin Range(trial.out))

(***************************************************************************)
(* The constructors and and or on their own: three expressions a, b, c and *)
(* the kind of the join are drawn, and the join is built nested, flat, of  *)
(* one child, or built nested and resolved.                                *)
(***************************************************************************)
JoinOf(kind, children) == IF kind = "and" THEN and(children) ELSE or(children)

InitCons ==
  /\ InitIdle
  /\ \E kind \in {"and", "or"}, a \in ExprsOfDepth(1), b \in ExprsOfDepth(1),
        c \in ExprsOfDepth(1) :
       trial = [fn |-> "input", kind |-> kind, a |-> a, b |-> b, c |-> c,
                clientIdentity |-> NoIdentity, out |-> <<>>]

TrialNested == JoinOf(trial.kind, <<JoinOf(trial.kind, <<trial.a, trial.b>>), trial.c>>)

ConstructNested ==
  /\ trial.fn = "input"
  /\ Returned("nested", TrialNested)

ConstructFlat ==
  /\ trial.fn = "input"
  /\ Returned("flat", JoinOf(trial.kind, <<trial.a, trial.b, trial.c>>))

ConstructSingle ==
  /\ trial.fn = "input"
  /\ Returned("single", JoinOf(trial.kind, <<trial.a>>))

ResolveNested ==
  \E id \in ClientIdentities :
    /\ trial.fn = "input"
    /\ trial' = [trial EXCEPT !.fn = "resolved", !.clientIdentity = id,
                              !.out = resolvePendingExpression(TrialNested, id)]
    /\ UNCHANGED <<ctx, inst, dirty, live, handles, registered, mirror, heap,
                   pkField, calls, lastOp, solo>>

NextCons == ConstructNested \/ ConstructFlat \/ ConstructSingle \/ ResolveNested

SpecCons == InitCons /\ [][NextCons]_vars

\* no And node is a direct child of an And node, no Or node of an Or node,
\* anywhere in the tree
RECURSIVE Normalised(_)
Normalised(e) ==
  CASE e.type \in {"and", "or"} ->
         \A k \in DOMAIN e.children :
            e.children[k].type # e.type /\ Normalised(e.children[k])
    [] e.type = "not" -> Normalised(e.child)
    [] e.type = "pending" -> (e.of = "not" => Normalised(e.child))
    [] OTHER -> TRUE

\* C23: and(and(a, b), c) builds the tree and(a, b, c) builds, likewise for
\* or; a single child collapses to that child; the trees built, and the
\* nested one after resolvePendingExpression, have no And directly inside
\* And and no Or directly inside Or.
C23_JoinsNormalised ==
  /\ trial.fn = "nested" =>
       (trial.out = JoinOf(trial.kind, <<trial.a, trial.b, trial.c>>)
          /\ Normalised(trial.out))
  /\ trial.fn = "flat" => Normalised(trial.out)
  /\ trial.fn = "single" => trial.out = trial.a
  /\ trial.fn = "resolved" => Normalised(trial.out)

\* a nested join of the kind of its first child, with a child that waited
\* for the identity, was built and resolved to one join of four children
C23_Witness ==
  /\ trial.fn = "resolved"
  /\ trial.a.type = trial.kind
  /\ trial.b.type = "pending"
  /\ trial.out.type = trial.kind
  /\ Len(trial.out.children) = 4

\* the expression holds a node that waits for the identity, at any depth
RECURSIVE HoldsPending(_)
HoldsPending(e) ==
  CASE e.type \in {"and", "or"} ->
         \E k \in DOMAIN e.children : HoldsPending(e.children[k])
    [] e.type = "not" -> HoldsPending(e.child)
    [] e.type = "pending" -> TRUE
    [] OTHER -> FALSE

\* a Pending node of the drawn expression cannot be resolved: the
\* expression holds one and the client has no identity
TrialStuck == HoldsPending(trial.expr) /\ trial.clientIdentity = NoIdentity

\* C24: when a Pending node anywhere in the expression cannot be resolved,
\* the whole expression is unresolved and evaluate returns false for the
\* row, also for the negated expression.
C24_UnresolvedIsFalse ==
  (trial.fn \in {"evaluate", "evaluateNot"} /\ TrialStuck)
    => (~ TrialResolves /\ ~ trial.out)

\* evaluate returned false for an Or that holds an unresolvable Pending
\* node beside a comparison that is true of the row
C24_Witness ==
  /\ trial.fn = "evaluate"
  /\ TrialStuck
  /\ trial.expr.type = "or"
  /\ \E k \in DOMAIN trial.expr.children :
        /\ trial.expr.children[k].type = "eq"
        /\ evaluate(trial.expr.children[k], trial.row, trial.clientIdentity)
  /\ ~ trial.out

\* the thrown Error of toQueryString, in place of a query text
Thrown == <<"throw">>

\* C25: toQueryString throws, and returns no text, when the expression
\* holds a Pending node that cannot be resolved, at any depth; otherwise
\* it returns a text and does not throw.
C25_CompileThrowsWhenUnresolved ==
  trial.fn \in {"toQueryString", "toQueryStringNot"} =>
    IF TrialStuck THEN trial.out = Thrown
    ELSE "throw" \notin Range(trial.out)

\* toQueryString threw for a join that holds an unresolvable Pending node
\* beside a comparison that needs no identity
C25_Witness ==
  /\ trial.fn = "toQueryString"
  /\ TrialStuck
  /\ trial.expr.type \in {"and", "or"}
  /\ \E k \in DOMAIN trial.expr.children : trial.expr.children[k].type = "eq"
  /\ \E k \in DOMAIN trial.expr.children : HoldsPending(trial.expr.children[k])
  /\ trial.out = Thrown

(***************************************************************************)
(* SpecNew: the constructor.  No instance exists at first; new STQuery is  *)
(* called with or without a context argument, inside or outside the        *)
(* component tree of a SpacetimeDBProvider, while the context of the       *)
(* provider changes.  trial records the scope of the last call.            *)
(***************************************************************************)
InitNew ==
  /\ InitCommon
  /\ ctx = [connection |-> Placeholder, isActive |-> FALSE, identity |-> NoIdentity]
  /\ heap = InitHeap
  /\ mirror = (1 :> {1, 2}) @@ (2 :> {3})
  /\ live = {}
  /\ inst = [i \in Inst |-> NewQuery(NoExpr)]
  /\ dirty = [i \in Inst |-> FALSE]
  /\ solo = [i \in Inst |-> [rows |-> <<>>, hp |-> heap, calls |-> <<>>]]

\* as New, the $effect registered although no context was found
New_Unguarded(i, whereClause, context, provider) ==
  /\ i \notin live
  /\ live' = live \cup {i}
  /\ inst' = [inst EXCEPT ![i] = NewQuery(whereClause)]
  /\ dirty' = [dirty EXCEPT ![i] = TRUE]
  /\ calls' = <<>>
  /\ lastOp' = [name |-> "construct", arg |-> i, again |-> FALSE]
  /\ trial' = [fn |-> "new", context |-> context, provider |-> provider]
  /\ UNCHANGED <<ctx, handles, registered, mirror, heap, pkField, solo>>

\* new STQuery(tableName, whereClause, context?): context tells whether the
\* argument is passed, provider whether hasContext finds the key.  The
\* $effect is registered, and runs after the constructor has returned.
New(i, whereClause, context, provider) ==
  /\ i \notin live
  /\ IF context \/ provider
     THEN /\ live' = live \cup {i}
          /\ inst' = [inst EXCEPT ![i] = NewQuery(whereClause)]
          /\ dirty' = [dirty EXCEPT ![i] = TRUE]
          /\ calls' = <<>>
     ELSE /\ calls' = <<Call("throw", i, 0, 0)>>
          /\ UNCHANGED <<live, inst, dirty>>
  /\ lastOp' = [name |-> "construct", arg |-> i, again |-> FALSE]
  /\ trial' = [fn |-> "new", context |-> context, provider |-> provider]
  /\ UNCHANGED <<ctx, handles, registered, mirror, heap, pkField, solo>>

NextNew ==
  \/ \E f \in Filters, c \in BOOLEAN, p \in BOOLEAN : New(1, f, c, p)
  \/ \E c \in RealConns, a \in BOOLEAN, id \in {NoIdentity} \cup Identities : InitializeConnection(c, a, id)
  \/ \E b \in BOOLEAN : SetActive(b)
  \/ \E v \in {NoIdentity} \cup Identities : SetIdentity(v)
  \/ \E i \in Inst : EffectRun(i)
  \/ \E h \in 1..MaxSubs : Applied(h)

SpecNew == InitNew /\ [][NextNew]_vars

\* instance i was not constructed: it has requested no subscription and
\* registered no listener
Inert(i) ==
  /\ \A h \in DOMAIN handles : handles[h].owner # i
  /\ \A c \in RealConns : i \notin Range(registered[c])

\* C26: new STQuery without a context argument and without a provider in
\* scope throws, constructs no instance and schedules no effect, and no
\* subscription is requested or listener registered for it afterwards; with
\* a context argument or a provider in scope it does not throw, whatever
\* the state of the connection.
C26_ThrowsWithoutProvider ==
  [][/\ lastOp'.name = "construct" =>
          IF trial'.context \/ trial'.provider
          THEN calls' = <<>> /\ lastOp'.arg \in live'
          ELSE /\ calls' = <<Call("throw", lastOp'.arg, 0, 0)>>
               /\ lastOp'.arg \notin live'
               /\ ~ dirty'[lastOp'.arg]
     /\ \A i \in Inst \ live' : Inert(i)']_vars

\* the constructor threw outside a provider while the context of a provider
\* elsewhere held an active connection with an identity
C26_Witness ==
  /\ lastOp.name = "construct"
  /\ ~ trial.context /\ ~ trial.provider
  /\ calls = <<Call("throw", 1, 0, 0)>>
  /\ ctx.isActive /\ ctx.identity # NoIdentity
  /\ 1 \notin live

\* C27: an update notification whose old row fails the filter and whose new
\* row passes it is handled as an insert of the new row: the new row is
\* appended once and the insert callback invoked with it, unless a cached
\* row has its primary key, and no other callback is invoked; one whose
\* rows both fail the filter changes nothing and invokes no callback.
C27_EnterIsInsert ==
  [][\A i \in live :
       (lastOp'.name = "update" /\ Listening(i) /\ ~ OldIn(i))
       => IF NewIn(i) /\ (pkField # <<>> => ~ KeyCached(i, Len(heap')))
          THEN /\ inst'[i].rows = Append(inst[i].rows, Len(heap'))
               /\ Callbacks(calls', i) = <<Call("onInsert", i, Len(heap'), 0)>>
          ELSE /\ inst'[i].rows = inst[i].rows
               /\ Callbacks(calls', i) = <<>>]_vars

\* the cache of instance i holds row object o
InCache(i, o) == o \in Range(inst[i].rows)

\* C28: a delete notification for a row that passes the filter and is not
\* in the cache leaves the cache unchanged and invokes no callback; for a
\* row in the cache it invokes the delete callback once.
C28_DeleteCallbackOnlyWhenFound ==
  [][\A i \in live :
       (/\ lastOp'.name = "delete" /\ Listening(i)
        /\ Passes(inst[i], heap[lastOp'.arg].row, ctx.identity))
       => IF InCache(i, lastOp'.arg) \/ (pkField # <<>> /\ Cached(i, lastOp'.arg))
          THEN Callbacks(calls', i) = <<Call("onDelete", i, lastOp'.arg, 0)>>
          ELSE /\ inst'[i].rows = inst[i].rows
               /\ Callbacks(calls', i) = <<>>]_vars

\* C29: on a table without a primary key, a delete notification for a row
\* object that the cache holds beside other rows removes that entry and
\* leaves every other entry in the cache, in its order.
C29_KeylessDeleteRemovesThatRow ==
  [][\A i \in live :
       (/\ pkField = <<>> /\ lastOp'.name = "delete" /\ Listening(i)
        /\ Passes(inst[i], heap[lastOp'.arg].row, ctx.identity)
        /\ InCache(i, lastOp'.arg) /\ Len(inst[i].rows) > 1)
       => inst'[i].rows =
            SelectSeq(inst[i].rows, LAMBDA x : x # lastOp'.arg)]_vars

(***************************************************************************)
(* The column lookup of evaluate on its own: a filter key and a row with   *)
(* one property beside its id are drawn, each spelled in camelCase or in   *)
(* snake_case, and an eq over the key is evaluated on the row.             *)
(***************************************************************************)
Spellings ==
  {<<"g","I","d">>, <<"g","_","i","d">>,
   <<"u","s","e","r","N","a","m","e">>, <<"u","s","e","r","_","n","a","m","e">>}

InitCase ==
  /\ InitIdle
  /\ \E key \in Spellings, prop \in Spellings, v \in GIds, w \in GIds :
       trial = [fn |-> "input", key |-> key, value |-> Num(v),
                row |-> (colId :> Num(1)) @@ (prop :> Num(w)), out |-> <<>>]

GetRowValue ==
  /\ trial.fn = "input"
  /\ Returned("getRowValue", getRowValue(trial.row, trial.key))

EvaluateEq ==
  /\ trial.fn = "input"
  /\ Returned("evaluateEq",
              evaluate(eq(trial.key, trial.value), trial.row, NoIdentity))

NextCase == GetRowValue \/ EvaluateEq

SpecCase == InitCase /\ [][NextCase]_vars

\* the two spellings name one column: they agree in snake_case
SameColumn(a, b) == camelToSnakeCase(a) = camelToSnakeCase(b)

\* the properties of the drawn row that hold the column of the drawn key
TrialColumns == {p \in DOMAIN trial.row : SameColumn(p, trial.key)}

\* C30: when the row holds the column of the key under the spelling of the
\* key or under the other naming convention, the lookup yields the value
\* of that property, and eq compares that value, whichever of the two is
\* spelled in snake_case.
C30_LookupTriesBothSpellings ==
  /\ (trial.fn = "getRowValue" /\ TrialColumns # {})
       => \E p \in TrialColumns : trial.out = trial.row[p]
  /\ (trial.fn = "evaluateEq" /\ TrialColumns # {})
       => \E p \in TrialColumns : trial.out <=> (trial.row[p] = trial.value)


(***************************************************************************)
(* Resubscription.                                                         *)
(***************************************************************************)
\* the effect of instance i is about to run with a subscription held whose
\* query string differs from the one the context now compiles to
QueryChanged(i) ==
  /\ i \in live /\ dirty[i]
  /\ ctx.isActive
  /\ Resolvable(inst[i], ctx)
  /\ inst[i].subscription # 0
  /\ inst[i].lastSubscribedQuery
       # BuildQueryFor(inst[i].whereClause, ctx.identity)

\* the calls of the step release handle h and then request a subscription
\* for the query string
ReleasedThenRequested(cs, h, query) ==
  \E k, m \in DOMAIN cs :
    /\ k < m
    /\ cs[k].op = "unsubscribe" /\ cs[k].a = h
    /\ cs[m].op = "subscribe" /\ cs[m].b = query
    /\ \A n \in DOMAIN cs : cs[n].op = "subscribe" => n = m

\* C31: when the effect of an instance runs with a live subscription and a
\* compiled query string different from the last subscribed one, the step
\* unsubscribes the old handle before it requests the new subscription, the
\* row cache is empty after the step, and the request carries exactly the
\* newly compiled string.
C31_ResubscribeOnChangedQuery ==
  [][\A i \in Inst :
       (QueryChanged(i) /\ lastOp'.name = "effect" /\ lastOp'.arg = i)
         => /\ ReleasedThenRequested(calls', inst[i].subscription,
                                      BuildQueryFor(inst[i].whereClause, ctx.identity))
            /\ inst'[i].rows = <<>>
            /\ inst'[i].lastSubscribedQuery
                 = BuildQueryFor(inst[i].whereClause, ctx.identity)]_vars

\* an effect has just released one handle and requested another
C31_Witness ==
  /\ lastOp.name = "effect"
  /\ HasCall(calls, "unsubscribe") /\ HasCall(calls, "subscribe")
  /\ inst[lastOp.arg].rows = <<>>
  /\ ctx.identity # NoIdentity


(***************************************************************************)
(* Listener registrations.                                                 *)
(***************************************************************************)
\* the registrations of instance i on the table of connection c (one
\* registration is an insert, a delete and an update listener)
Registrations(i, c) ==
  Cardinality({k \in DOMAIN registered[c] : registered[c][k] = i})

\* C32: in every reachable state an instance has at most one insert, one
\* delete and one update listener registered on a table, so that a raw
\* notification is processed at most once per instance.
C32_ListenersNotDuplicated ==
  \A i \in Inst : \A c \in DOMAIN registered : Registrations(i, c) <= 1

\* an instance that has subscribed a second time is registered once
C32_Witness ==
  /\ lastOp.name = "effect"
  /\ HasCall(calls, "removeListeners") /\ HasCall(calls, "addListeners")
  /\ \E c \in DOMAIN registered : Registrations(lastOp.arg, c) = 1

(***************************************************************************)
(* Connection loss and reactivation.                                       *)
(***************************************************************************)
\* every subscription instance i requested has ended, one of them with the
\* connection it was requested on
LostSubscription(i) ==
  /\ \E h \in DOMAIN handles : handles[h].owner = i /\ handles[h].closed
  /\ \A h \in DOMAIN handles :
       handles[h].owner = i => (handles[h].closed \/ handles[h].unsub)

\* the effect of instance i has run on the loss of the connection
LossSeen(i) == LostSubscription(i) /\ ~ ctx.isActive /\ ~ dirty[i]

\* instance i is ready on an open, acknowledged subscription requested after
\* the loss, its cache seeded from the table
ReadyAgain(i) ==
  /\ inst[i].state = "ready"
  /\ inst[i].subscription \in DOMAIN handles
  /\ ~ handles[inst[i].subscription].closed
  /\ handles[inst[i].subscription].applied > 0
  /\ \E h \in 1..(inst[i].subscription - 1) : handles[h].owner = i /\ handles[h].closed
  /\ CacheIsFilteredMirror(i)

\* C33: after a connection loss, the effect that runs with the connection
\* active again and the filter resolvable requests a new subscription for the
\* query string the context compiles to (the string of before the loss when
\* filter and identity are the same; the test for an unchanged query does
\* not suppress it), and, the acknowledgment being weakly fair and the
\* connection staying active, the instance is ready again with its cache
\* seeded from the table.
C33_ResubscribesAfterLoss ==
  /\ [][\A i \in Inst :
          (/\ LostSubscription(i) /\ i \in live /\ dirty[i]
           /\ ctx.isActive /\ Resolvable(inst[i], ctx)
           /\ lastOp'.name = "effect" /\ lastOp'.arg = i)
          => (/\ Len(handles') = Len(handles) + 1
              /\ inst'[i].subscription = Len(handles')
              /\ \E k \in DOMAIN calls' :
                    /\ calls'[k].op = "subscribe"
                    /\ calls'[k].b = BuildQueryFor(inst[i].whereClause, ctx.identity))]_vars
  /\ (<>[](ctx.isActive /\ Resolvable(inst[1], ctx)))
       => (LossSeen(1) ~> ReadyAgain(1))

C33_Witness ==
  /\ ReadyAgain(1)
  /\ inst[1].rows # <<>>
  /\ lastOp.name = "applied"

\* C34: whenever an instance is ready, the subscription it tracks has
\* received its applied acknowledgment; after a resubscribe it is loading
\* until the new subscription is acknowledged.
C34_ReadyIsAcknowledged ==
  \A i \in live : inst[i].state = "ready" => Acknowledged(i)

(***************************************************************************)
(* SpecSpread: an instance whose where clause is and() / or() spread over  *)
(* a list, under the context changes of SpecLive.                          *)
(***************************************************************************)
InitSpread ==
  /\ InitCommon
  /\ ctx = [connection |-> Placeholder, isActive |-> FALSE, identity |-> NoIdentity]
  /\ heap = InitHeap
  /\ mirror = (1 :> {1, 2}) @@ (2 :> {3})
  /\ live = {1}
  /\ \E f \in SpreadFilters : inst = [i \in Inst |-> NewQuery(IF i = 1 THEN f ELSE NoExpr)]
  /\ dirty = [i \in Inst |-> i \in live]
  /\ solo = [i \in Inst |-> [rows |-> <<>>, hp |-> heap, calls |-> <<>>]]

SpecSpread == InitSpread /\ [][NextLive]_vars

\* the text is SELECT * FROM <table>, alone or followed by WHERE and a
\* clause that is not empty
WellFormed(query) ==
  /\ Len(query) >= 2
  /\ query[1] = "SELECT * FROM " /\ query[2] = JoinChars(camelToSnake(tableName))
  /\ Len(query) > 2 =>
       /\ query[3] = " WHERE "
       /\ \E k \in 4..Len(query) : query[k] # ""

\* C35: every query string passed to subscribe is SELECT * FROM <table>,
\* without WHERE or with WHERE and a non-empty clause, whatever filter the
\* constructors built, and() / or() of no children included.
C35_SubscribedQueryWellFormed ==
  \A k \in DOMAIN calls : calls[k].op = "subscribe" => WellFormed(calls[k].b)

(***************************************************************************)
(* Two instances with one query string.                                    *)
(***************************************************************************)
\* instance i is ready on an acknowledged subscription and listens
ReadyAndListening(i) ==
  /\ i \in live /\ Listening(i)
  /\ inst[i].state = "ready" /\ Acknowledged(i)

\* C36: two ready instances with the same compiled query string: when a new
\* row that matches is inserted and its one row object is delivered to the
\* insert listeners of both, the row is appended to both caches and the
\* insert callback of both is invoked.
C36_BothInstancesGetInsert ==
  [][(/\ lastOp'.name = "insert"
      /\ ReadyAndListening(1) /\ ReadyAndListening(2)
      /\ inst[1].lastSubscribedQuery = inst[2].lastSubscribedQuery
      /\ Insertable(1, lastOp'.arg) /\ Insertable(2, lastOp'.arg))
     => \A i \in {1, 2} :
          /\ inst'[i].rows = Append(inst[i].rows, lastOp'.arg)
          /\ Callbacks(calls', i) = <<Call("onInsert", i, lastOp'.arg, 0)>>]_vars

\* the row callback an update notification owes instance i, from the values
\* the old row had before the step
OwedCallbacks(i) ==
  CASE OldIn(i) /\ ~ NewIn(i) -> <<Call("onDelete", i, lastOp'.arg, 0)>>
    [] ~ OldIn(i) /\ NewIn(i) -> <<Call("onInsert", i, Len(heap'), 0)>>
    [] OldIn(i) /\ NewIn(i) -> <<Call("onUpdate", i, lastOp'.arg, Len(heap'))>>
    [] OTHER -> <<>>

C38_UnknownKeyLeavesCache ==
  [][\A i \in live :
       (/\ lastOp'.name = "update" /\ Listening(i)
        /\ pkField # <<>>
        /\ OldIn(i)
        /\ ~ Cached(i, lastOp'.arg))
       => (/\ inst'[i].rows = inst[i].rows
           /\ \A k \in DOMAIN inst[i].rows :
                 heap'[inst[i].rows[k]].row = heap[inst[i].rows[k]].row
           /\ ~ HasCall(Callbacks(calls', i), "throw"))]_vars

(***************************************************************************)
(* SpecCtx: the SpacetimeDBContext objects of several providers of one     *)
(* module, initialized with the one connection object of the module.       *)
(* trial.contexts[x] holds #identity, #isActive and #connection of the     *)
(* context of provider x; trial.accessor is the context the accessors      *)
(* defined on the connection object for identity and isActive read and     *)
(* write (0: the connection still has its own properties, undefined and    *)
(* false on a connection just built).                                      *)
(***************************************************************************)
MaxProviders == 3
Providers == 1..MaxProviders

NewContext == [identity |-> NoIdentity, isActive |-> FALSE, connection |-> Placeholder]

\* connection.identity / connection.isActive as the connection object
\* answers it
ConnectionGet(t, field) ==
  IF t.accessor = 0 THEN NewContext[field] ELSE t.contexts[t.accessor][field]

\* connection.identity = v / connection.isActive = v
ConnectionSet(t, field, v) ==
  IF t.accessor = 0 THEN t ELSE [t EXCEPT !.contexts[t.accessor][field] = v]

\* SpacetimeDBContext.initializeConnection on the context of provider x
initializeConnection(t, x, connection) ==
  IF t.contexts[x].connection = connection THEN t
  ELSE [t EXCEPT !.contexts[x] = [identity |-> ConnectionGet(t, "identity"),
                                  isActive |-> ConnectionGet(t, "isActive"),
                                  connection |-> connection],
                 !.accessor = x]

InitCtx ==
  /\ InitIdle
  /\ trial = [fn |-> "contexts", contexts |-> [x \in Providers |-> NewContext],
              accessor |-> 0]

CtxStep(t) ==
  /\ trial.fn = "contexts"
  /\ trial' = t
  /\ UNCHANGED <<ctx, inst, dirty, live, handles, registered, mirror, heap,
                 pkField, calls, lastOp, solo>>

\* the provider x obtains the connection of the module and initializes its
\* context with it
AttachContext(x) ==
  /\ trial.contexts[x].connection = Placeholder
  /\ CtxStep(initializeConnection(trial, x, 1))

\* the connection's identity is assigned (by the connect handler)
ConnectionIdentity(v) ==
  /\ trial.accessor # 0
  /\ ConnectionGet(trial, "identity") # v
  /\ CtxStep(ConnectionSet(trial, "identity", v))

\* the connection's isActive is assigned (connect / disconnect handler)
ConnectionActive(b) ==
  /\ trial.accessor # 0
  /\ ConnectionGet(trial, "isActive") # b
  /\ CtxStep(ConnectionSet(trial, "isActive", b))

NextCtx ==
  \/ \E x \in Providers : AttachContext(x)
  \/ \E v \in ClientIdentities : ConnectionIdentity(v)
  \/ \E b \in BOOLEAN : ConnectionActive(b)

SpecCtx == InitCtx /\ [][NextCtx]_vars

\* the contexts initialized with the connection of the module
Attached(t) == {x \in Providers : t.contexts[x].connection # Placeholder}

\* C39: contexts initialized with the same connection object all show the
\* connection's identity (ctx.identity) and isActive (ctx.connected) after
\* every later change of them.
C39_SharedConnectionVisibleToAll ==
  trial.fn = "contexts" =>
    \A x \in Attached(trial) :
       /\ trial.contexts[x].identity = ConnectionGet(trial, "identity")
       /\ trial.contexts[x].isActive = ConnectionGet(trial, "isActive")

(***************************************************************************)
(* SpecProv: SpacetimeDBProvider components of one moduleName.  The file   *)
(* holds two variants of the component: the one that takes a               *)
(* connectionBuilder (connection built in a timeout of onMount, disconnect *)
(* deferred to a timer) and the one that takes dbConnection (connection    *)
(* obtained by an effect and attached in the callback of a promise).       *)
(* trial.connections is the connection the global map holds for the module *)
(* (0: none), trial.refCounts its entry of the reference counts (<<>>:     *)
(* none), trial.timer whether disconnectTimers holds a timer, trial.stray  *)
(* the pending timers it no longer holds, trial.built the connections      *)
(* built, trial.disconnected the connections disconnect() was called on,   *)
(* trial.prov[x] the phase of provider x and the connection it attached.   *)
(***************************************************************************)
Variants == {"connectionBuilder", "dbConnection"}

NewProvider == [phase |-> "none", conn |-> 0]

InitProv ==
  /\ InitIdle
  /\ \E v \in Variants :
       trial = [fn |-> "providers", variant |-> v, connections |-> 0,
                refCounts |-> <<>>, timer |-> FALSE, stray |-> 0, built |-> 0,
                disconnected |-> {}, prov |-> [x \in Providers |-> NewProvider]]

\* refCounts.get(moduleName) ?? default
RefCount(t, default) == IF t.refCounts = <<>> THEN default ELSE t.refCounts[1]

\* connections.get(moduleName), built and stored with a count of 0 when the
\* map has none
getOrBuildConnection(t) ==
  IF t.connections # 0 THEN t
  ELSE [t EXCEPT !.connections = t.built + 1, !.built = t.built + 1,
                 !.refCounts = <<0>>]

\* refCounts.set(moduleName, (refCounts.get(moduleName) ?? 0) + 1) and
\* initializeConnection
Attach(t, x, connection) ==
  [t EXCEPT !.refCounts = <<RefCount(t, 0) + 1>>,
            !.prov[x].conn = connection,
            !.prov[x].phase = IF @ = "destroyedPending" THEN "destroyed" ELSE "attached"]

\* the body of the disconnect timer, and of cleanupConnection at count 0
DisconnectAndDrop(t) ==
  [t EXCEPT !.disconnected = IF t.connections # 0 THEN @ \cup {t.connections} ELSE @,
            !.connections = 0, !.refCounts = <<>>]

\* the timeout of onMount of the connectionBuilder variant
MountTimeout(t, x) ==
  LET cleared == [t EXCEPT !.timer = FALSE]
      got == getOrBuildConnection(cleared)
  IN Attach(got, x, got.connections)

\* onDestroy of the connectionBuilder variant
onDestroy(t, x) ==
  LET currentRefCount == RefCount(t, 1) - 1
      counted == [t EXCEPT !.refCounts = <<currentRefCount>>, !.prov[x].phase = "destroyed"]
  IN IF currentRefCount <= 0
     THEN [counted EXCEPT !.timer = TRUE,
                          !.stray = IF t.timer THEN @ + 1 ELSE @]
     ELSE counted

\* cleanupConnection of the dbConnection variant
cleanupConnection(t) ==
  LET currentRefCount == RefCount(t, 1) - 1
      counted == [t EXCEPT !.refCounts = <<currentRefCount>>]
  IN IF currentRefCount <= 0 THEN DisconnectAndDrop(counted) ELSE counted

ProvStep(t) ==
  /\ trial.fn = "providers"
  /\ trial' = t
  /\ UNCHANGED <<ctx, inst, dirty, live, handles, registered, mirror, heap,
                 pkField, calls, lastOp, solo>>

\* a callback of a promise is pending: it runs before the next task
ThenPending(t) ==
  \E x \in Providers : t.prov[x].phase \in {"pending", "destroyedPending"}

\* the component is created; onMount sets its timeout
Create(x) ==
  /\ trial.fn = "providers"
  /\ ~ ThenPending(trial)
  /\ trial.prov[x].phase = "none"
  /\ ProvStep([trial EXCEPT !.prov[x].phase = "created"])

\* the timeout of onMount: the connectionBuilder variant gets or builds the
\* connection and attaches it; the dbConnection variant sets mounted, its
\* effect runs, gets or builds the connection and leaves the attachment to
\* the callback of the promise
Mount(x) ==
  /\ trial.fn = "providers"
  /\ ~ ThenPending(trial)
  /\ trial.prov[x].phase = "created"
  /\ IF trial.variant = "connectionBuilder"
     THEN ProvStep(MountTimeout(trial, x))
     ELSE \E got \in {getOrBuildConnection(trial)} :
            ProvStep([got EXCEPT !.prov[x] = [phase |-> "pending", conn |-> got.connections]])

\* the callback of the promise of getOrBuildConnection (dbConnection variant)
PromiseThen(x) ==
  /\ trial.fn = "providers"
  /\ trial.prov[x].phase \in {"pending", "destroyedPending"}
  /\ ProvStep(Attach(trial, x, trial.prov[x].conn))

\* the component is destroyed
Destroy(x) ==
  /\ trial.fn = "providers"
  /\ trial.prov[x].phase \in {"created", "pending", "attached"}
  /\ IF trial.variant = "connectionBuilder"
     THEN ProvStep(onDestroy(trial, x))
     ELSE IF trial.prov[x].phase = "created"
          THEN ProvStep([trial EXCEPT !.prov[x].phase = "destroyed"])
          ELSE \E cleaned \in {cleanupConnection(trial)} :
                 ProvStep([cleaned EXCEPT !.prov[x].phase =
                             IF @ = "pending" THEN "destroyedPending" ELSE "destroyed"])

\* the disconnect timer that disconnectTimers holds fires
DisconnectTimer ==
  /\ trial.fn = "providers"
  /\ ~ ThenPending(trial)
  /\ trial.timer
  /\ ProvStep([DisconnectAndDrop(trial) EXCEPT !.timer = FALSE])

\* a disconnect timer that a later one replaced in disconnectTimers fires
StrayTimer ==
  /\ trial.fn = "providers"
  /\ ~ ThenPending(trial)
  /\ trial.stray > 0
  /\ ProvStep([DisconnectAndDrop(trial) EXCEPT
                 !.timer = FALSE,
                 !.stray = IF trial.timer THEN @ ELSE @ - 1])

NextProv ==
  \/ \E x \in Providers : Create(x)
  \/ \E x \in Providers : Mount(x)
  \/ \E x \in Providers : PromiseThen(x)
  \/ \E x \in Providers : Destroy(x)
  \/ DisconnectTimer
  \/ StrayTimer

SpecProv == InitProv /\ [][NextProv]_vars

\* the mounted providers attached to connection c
AttachedTo(t, c) ==
  {x \in Providers : t.prov[x].phase = "attached" /\ t.prov[x].conn = c}

\* C40: providers of one moduleName: the connection a mounted provider is
\* attached to has not been disconnected and is still the one the global
\* map holds, and the reference count is at least the number of mounted
\* providers attached to it, whatever other providers of the module were
\* mounted or destroyed, before their mount step or after.
C40_ConnectionOutlivesNoUser ==
  trial.fn = "providers" =>
    /\ \A x \in Providers :
         trial.prov[x].phase = "attached"
           => /\ trial.prov[x].conn \notin trial.disconnected
              /\ trial.connections = trial.prov[x].conn
    /\ RefCount(trial, 0) >= Cardinality(AttachedTo(trial, trial.connections))

====
